---- MODULE Spec2Model ----
(***************************************************************************)
(* Model of advisor/rules.go of soar: the heuristic rule catalog, the      *)
(* ignore gate, and FormatSuggest with its scoring and rendering paths.    *)
(* Strings are TLA+ strings; Go's strings/strconv/sort/fmt helpers are     *)
(* operators that compute what the library functions compute.  Text that   *)
(* the source writes in Chinese is transliterated to ASCII.                *)
(***************************************************************************)
EXTENDS Integers, Sequences, FiniteSets, TLC

VARIABLES
    HeuristicRules,        \* the process-wide catalog map (rules.go:111)
    IgnoreRules,           \* common.Config.IgnoreRules
    ReportType,            \* common.Config.ReportType
    ExplainSQLReportType,  \* common.Config.ExplainSQLReportType
    pc,                    \* "idle": no call was made yet; "done": the call returned
    sql,                   \* FormatSuggest argument sql
    format,                \* FormatSuggest argument format
    suggests,              \* FormatSuggest variadic argument: a sequence of maps
    suggest,               \* the map FormatSuggest returns
    normalized,            \* the merged map as it stands when rendering starts (line 1305)
    buf,                   \* the local buf []string when the format switch ends
    score,                 \* the local score of FormatSuggest when the format switch ends
    sug,                   \* the JSONSuggest struct formatJSON built (zero-valued if not called)
    str,                   \* the string FormatSuggest returns
    order,                 \* the order in which this call's range loops visited the map
    stdout,                \* what the last ListHeuristicRules call printed
    argItem,               \* IsIgnoreRule argument
    ignored,               \* IsIgnoreRule result
    BlackList,             \* common.BlackList
    in,                    \* InBlackList result
    objs,                  \* the map objects allocated by the reloads, by address
    ptr,                   \* the address the variable HeuristicRules holds
    tmp,                   \* the address of the map a running InitHeuristicRules builds, 0 if none
    todo,                  \* the entries of the literal that the running build has yet to insert
    reader,                \* the address a concurrent reader loaded from HeuristicRules, 0 if none
    observed,              \* the maps concurrent readers found behind their addresses
    listed,                \* the Items the last ListHeuristicRules call printed, in order
    evaluated,             \* the entries of the catalog literal evaluated so far, by key
    inserted,              \* how many entries of the catalog literal were evaluated
    audit,                 \* the *Query4Audit NewQuery4Audit returns
    auditErr,              \* the error NewQuery4Audit returns
    target                 \* the input map the local map of FormatSuggest shares storage with, 0 if none

vars == <<HeuristicRules, IgnoreRules, ReportType, ExplainSQLReportType, pc, sql,
          format, suggests, suggest, normalized, buf, score, sug, str, order,
          stdout, argItem, ignored, BlackList, in, objs, ptr, tmp, todo, reader,
          observed, listed, evaluated, inserted, audit, auditErr, target>>

\* the variables of InBlackList and of the concurrent reload
blackVars == <<BlackList, in>>
reloadVars == <<objs, ptr, tmp, todo, reader, observed>>

\* the variables of the catalog literal and of NewQuery4Audit
catalogVars == <<evaluated, inserted>>
auditVars == <<audit, auditErr>>

-----------------------------------------------------------------------------
(* Bounds of the model.                                                    *)

\* Largest number of verdicts in an input verdict map.
MaxVerdicts == 2
\* Largest number of patterns in the configured ignore list.
MaxIgnore == 2

-----------------------------------------------------------------------------
(* Go library functions used by rules.go.                                  *)

\* The printable ASCII characters in byte order (Go compares strings bytewise),
\* without the backquote, which a TLA+ string cannot hold.
Bytes ==
    " !\"#$%&'()*+,-./0123456789:;<=>?@ABCDEFGHIJKLMNOPQRSTUVWXYZ[\\]^_abcdefghijklmnopqrstuvwxyz{|}~"

Char(s, i) == SubSeq(s, i, i)

Ord(c) == CHOOSE i \in 1..Len(Bytes) : Char(Bytes, i) = c

\* strings.HasPrefix
HasPrefix(s, prefix) ==
    Len(s) >= Len(prefix) /\ SubSeq(s, 1, Len(prefix)) = prefix

\* strings.TrimLeft(s, cutset) for a one-character cutset
RECURSIVE TrimLeft(_, _)
TrimLeft(s, c) ==
    IF Len(s) > 0 /\ Char(s, 1) = c THEN TrimLeft(SubSeq(s, 2, Len(s)), c) ELSE s

\* strings.TrimRight(s, cutset) for a one-character cutset
RECURSIVE TrimRight(_, _)
TrimRight(s, c) ==
    IF Len(s) > 0 /\ Char(s, Len(s)) = c THEN TrimRight(SubSeq(s, 1, Len(s) - 1), c) ELSE s

\* strings.Trim(s, cutset) for a one-character cutset
Trim(s, c) == TrimRight(TrimLeft(s, c), c)

Digits == "0123456789"

IsDigit(c) == \E i \in 1..10 : Char(Digits, i) = c

DigitVal(c) == (CHOOSE i \in 1..10 : Char(Digits, i) = c) - 1

RECURSIVE AllDigits(_)
AllDigits(s) ==
    Len(s) = 0 \/ (IsDigit(Char(s, 1)) /\ AllDigits(SubSeq(s, 2, Len(s))))

RECURSIVE DigitsVal(_)
DigitsVal(s) ==
    IF Len(s) = 0 THEN 0
    ELSE 10 * DigitsVal(SubSeq(s, 1, Len(s) - 1)) + DigitVal(Char(s, Len(s)))

\* strconv.Atoi: an optional sign and at least one decimal digit; on a syntax
\* error the value is 0 and err is set.  (Strings of the model are far shorter
\* than the 19 digits at which Atoi reports a range error.)
Atoi(s) ==
    LET signed == Len(s) > 0 /\ Char(s, 1) \in {"+", "-"}
        digits == IF signed THEN SubSeq(s, 2, Len(s)) ELSE s
    IN  IF Len(digits) = 0 \/ ~AllDigits(digits)
        THEN [val |-> 0, err |-> TRUE]
        ELSE [val |-> IF signed /\ Char(s, 1) = "-" THEN 0 - DigitsVal(digits)
                      ELSE DigitsVal(digits),
              err |-> FALSE]

\* bytewise a < b
RECURSIVE StrLess(_, _)
StrLess(a, b) ==
    IF Len(b) = 0 THEN FALSE
    ELSE IF Len(a) = 0 THEN TRUE
    ELSE IF Char(a, 1) = Char(b, 1)
         THEN StrLess(SubSeq(a, 2, Len(a)), SubSeq(b, 2, Len(b)))
         ELSE Ord(Char(a, 1)) < Ord(Char(b, 1))

\* sort.Strings applied to the strings of a set: ascending, bytewise
RECURSIVE SortStrings(_)
SortStrings(S) ==
    IF S = {} THEN <<>>
    ELSE LET m == CHOOSE x \in S : \A y \in S \ {x} : StrLess(x, y)
         IN  <<m>> \o SortStrings(S \ {m})

\* strings.Join
RECURSIVE Join(_, _)
Join(a, sep) ==
    IF Len(a) = 0 THEN ""
    ELSE IF Len(a) = 1 THEN a[1]
    ELSE a[1] \o sep \o Join(Tail(a), sep)

\* decimal text of an integer (fmt %d)
RECURSIVE NatToStr(_)
NatToStr(n) ==
    IF n < 10 THEN Char(Digits, n + 1)
    ELSE NatToStr(n \div 10) \o Char(Digits, (n % 10) + 1)

IntToStr(n) == IF n < 0 THEN "-" \o NatToStr(0 - n) ELSE NatToStr(n)

\* all orders in which the keys of a set can be visited (Go map iteration)
RECURSIVE Orders(_)
Orders(S) ==
    IF S = {} THEN {<<>>}
    ELSE UNION {{<<x>> \o o : o \in Orders(S \ {x})} : x \in S}

Range(f) == {f[i] : i \in DOMAIN f}

-----------------------------------------------------------------------------
(* Rules and maps of rules.                                                *)

\* type Rule; Func holds the name of the check method, "" for nil
Rule(it, severity, summary, content, case, func) ==
    [Item |-> it, Severity |-> severity, Summary |-> summary, Content |-> content,
     Case |-> case, Position |-> 0, Func |-> func]

\* the zero value of Rule, which indexing a map with a missing key yields
ZeroRule == Rule("", "", "", "", "", "")

\* m[k] of a Go map
Lookup(m, k) == IF k \in DOMAIN m THEN m[k] ELSE ZeroRule

\* delete(m, k)
Delete(m, k) == [x \in DOMAIN m \ {k} |-> m[x]]

\* the map m after delete(m, k) for every k of ks
DeleteAll(m, ks) == [x \in DOMAIN m \ ks |-> m[x]]

EmptyMap == [x \in {} |-> ZeroRule]

\* The map literal InitHeuristicRules assigns, cut to the entries whose Items the
\* model's verdicts use (5 of its 133 entries, verbatim).
HeuristicRulesLiteral ==
    [k \in {"OK", "ARG.005", "COL.001", "KEY.002", "KEY.007"} |->
       CASE k = "OK" -> Rule("OK", "L0", "OK", "OK", "OK", "RuleOK")
         [] k = "ARG.005" ->
              Rule("ARG.005", "L1",
                   "IN should be used with caution, too many elements will cause a full table scan",
                   "Such as: select id from t where num in(1,2,3) For continuous values, don't use IN if you can use BETWEEN: select id from t where num between 1 and 3. And when the IN value is too much, MySQL may also enter a full table scan, causing a sharp drop in performance. ",
                   "select id from t where num in(1,2,3)", "RuleIn")
         [] k = "COL.001" ->
              Rule("COL.001", "L1", "It is not recommended to use SELECT * type query",
                   "When the table structure changes, using the * wildcard to select all columns will cause the meaning and behavior of the query to change, which may cause the query to return more data. ",
                   "select * from tbl where id=1", "RuleSelectStar")
         [] k = "KEY.002" ->
              Rule("KEY.002", "L4",
                   "There is no primary key or unique key, and the table structure cannot be changed online",
                   "No primary key or unique key, table structure cannot be changed online",
                   "create table test(col varchar(5000))", "RuleNoOSCKey")
         [] k = "KEY.007" ->
              Rule("KEY.007", "L4",
                   "The primary key is not specified or the primary key is not int or bigint",
                   "The primary key is not specified or the primary key is not int or bigint. It is recommended to set the primary key to int unsigned or bigint unsigned. ",
                   "CREATE TABLE tbl (a int);", "RulePKNotInt")]

\* The verdicts the callers of FormatSuggest hand in: catalog rules as the
\* heuristic checks return them, and verdicts of the explain, profiling, trace,
\* index and error layers.  Two of them carry a Severity that is no L<n>.
Verdicts ==
    {HeuristicRulesLiteral[k] : k \in DOMAIN HeuristicRulesLiteral} \cup
    { Rule("ERR.000", "L8", "No available MySQL environment, skip parsing", "", "", ""),
      Rule("ERR.001", "L8", "MySQL execute failed", "syntax error", "", ""),
      Rule("EXP.000", "L0", "Explain information", "| id | select_type | table |", "", ""),
      Rule("EXP.001", "L2", "Full table scan", "type ALL scans every row", "", ""),
      Rule("PRO.001", "L1", "Profiling", "| Status | Duration |", "", ""),
      Rule("TRA.001", "L1", "Trace", "| steps |", "", ""),
      Rule("IDX.003", "L2", "Add a suitable index for col of table tbl",
           "Add a suitable index for col of table tbl", "ALTER TABLE tbl add index idx_col (col)", ""),
      Rule("CLA.001", "high", "The outermost SELECT does not specify the WHERE condition",
           "The SELECT statement has no WHERE clause", "select id from tbl", ""),
      Rule("FUN.001", "L-1", "Avoid using functions or other operators in WHERE conditions",
           "queries that use functions cannot use the indexes", "", "") }

\* every map from Item to verdict with at most n entries
VerdictMaps(n) ==
    {[k \in {v.Item : v \in S} |-> CHOOSE v \in S : v.Item = k] :
        S \in {T \in SUBSET Verdicts :
                 /\ Cardinality(T) <= n
                 /\ \A v, w \in T : v.Item = w.Item => v = w}}

-----------------------------------------------------------------------------
(* The configuration (package common) and the inputs of the calls.         *)

\* every sequence over S of length at most n
RECURSIVE SeqsUpTo(_, _)
SeqsUpTo(S, n) ==
    IF n = 0 THEN {<<>>}
    ELSE LET shorter == SeqsUpTo(S, n - 1)
         IN  shorter \cup {Append(s, x) : s \in shorter, x \in S}

ReportTypes == {"markdown", "json"}

ExplainSQLReportTypes == {"fingerprint", "sample", "pretty"}

Formats == {"json", "text", "lint", "markdown", "duplicate-key-checker", "xml"}

Queries == {"", "select * from tbl where id=1"}

-----------------------------------------------------------------------------
(* The ignore gate.                                                        *)

\* IsIgnoreRule with the strings.Trim of line 1225 left out
IsIgnoreRuleNoTrim(it) ==
    \E i \in DOMAIN IgnoreRules :
        LET ir == IgnoreRules[i]
        IN  HasPrefix(it, ir) /\ ir # "OK" /\ ir # ""

\* func IsIgnoreRule(item string) bool, reading common.Config.IgnoreRules
IsIgnoreRule(it) ==
    \E i \in DOMAIN IgnoreRules :
        LET ir == Trim(IgnoreRules[i], "*")
        IN  HasPrefix(it, ir) /\ ir # "OK" /\ ir # ""

-----------------------------------------------------------------------------
(* The block list (rules.go:1237-1255) and Go's regexp as it uses it.      *)
(* Block-list entries of the model are written over letters, digits, the   *)
(* space and . * + ? ^ $ ( [ ; over these the operators below compute what *)
(* regexp.Compile and Regexp.FindString compute.                        *)

UpperCase == "ABCDEFGHIJKLMNOPQRSTUVWXYZ"

LowerCase == "abcdefghijklmnopqrstuvwxyz"

\* simple case folding of one ASCII character, as the flag i applies it
Fold(c) ==
    IF \E i \in 1..26 : Char(UpperCase, i) = c
    THEN Char(LowerCase, CHOOSE i \in 1..26 : Char(UpperCase, i) = c)
    ELSE c

Quantifiers == {"*", "+", "?"}

\* regexp/syntax.Parse of the pattern p: a sequence of atoms, each one a
\* character c with a repetition operator q ("" if none) that is lazy or not.
\* A repetition operator without an argument or directly after another one
\* (other than the ? that makes it lazy), and a ( or [ that is never closed,
\* are syntax errors.
RECURSIVE Parse(_)
Parse(p) ==
    IF Len(p) = 0 THEN [err |-> FALSE, atoms |-> <<>>]
    ELSE IF Char(p, 1) \in Quantifiers \cup {"(", "["}
    THEN [err |-> TRUE, atoms |-> <<>>]
    ELSE LET q == IF Len(p) >= 2 /\ Char(p, 2) \in Quantifiers THEN Char(p, 2) ELSE ""
             lazy == q # "" /\ Len(p) >= 3 /\ Char(p, 3) = "?"
             used == 1 + (IF q # "" THEN 1 ELSE 0) + (IF lazy THEN 1 ELSE 0)
             rest == Parse(SubSeq(p, used + 1, Len(p)))
         IN  [err |-> rest.err,
              atoms |-> IF rest.err THEN <<>>
                        ELSE <<[c |-> Char(p, 1), q |-> q, lazy |-> lazy]>> \o rest.atoms]

\* regexp.Compile of an expression that opens with the flag group (?i)
Compile(expr) == Parse(SubSeq(expr, 5, Len(expr)))

\* the number of characters one match of the atom a consumes
Width(a) == IF a.c \in {"^", "$"} THEN 0 ELSE 1

\* the atom a matches the text s at position i
Holds(a, s, i) ==
    CASE a.c = "^" -> i = 1
      [] a.c = "$" -> i = Len(s) + 1
      [] a.c = "." -> i <= Len(s) /\ Char(s, i) # "\n"
      [] OTHER -> i <= Len(s) /\ Fold(Char(s, i)) = Fold(a.c)

\* how often the atom a matches in a row from position i on
RECURSIVE MaxRep(_, _, _)
MaxRep(a, s, i) ==
    IF ~Holds(a, s, i) THEN 0
    ELSE IF Width(a) = 0 THEN 1
    ELSE 1 + MaxRep(a, s, i + 1)

\* the repetition counts of the atom a at position i, the preferred one first
Counts(a, s, i) ==
    LET n == MaxRep(a, s, i)
        lo == IF a.q = "+" THEN 1 ELSE 0
        hi == IF a.q = "?" /\ n > 1 THEN 1 ELSE n
    IN  IF a.q = "" THEN (IF n >= 1 THEN <<1>> ELSE <<>>)
        ELSE IF hi < lo THEN <<>>
        ELSE IF a.lazy THEN [k \in 1..(hi - lo + 1) |-> lo + k - 1]
        ELSE [k \in 1..(hi - lo + 1) |-> hi - k + 1]

\* The position after the match of the atoms from position i on that a
\* backtracking matcher finds first (Go's leftmost-first rule), 0 if none.
RECURSIVE MatchHere(_, _, _)
MatchHere(atoms, s, i) ==
    IF Len(atoms) = 0 THEN i
    ELSE LET a == Head(atoms)
             ks == Counts(a, s, i)
             ends == [j \in 1..Len(ks) |-> MatchHere(Tail(atoms), s, i + ks[j] * Width(a))]
             hits == {j \in 1..Len(ks) : ends[j] # 0}
         IN  IF hits = {} THEN 0
             ELSE ends[CHOOSE j \in hits : \A h \in hits : j <= h]

\* the start positions at which the expression matches the text s
Starts(re, s) == {i \in 1..(Len(s) + 1) : MatchHere(re.atoms, s, i) # 0}

\* Regexp.FindString: the text of the leftmost match, "" if there is none
FindString(re, s) ==
    IF Starts(re, s) = {} THEN ""
    ELSE LET i == CHOOSE j \in Starts(re, s) : \A h \in Starts(re, s) : j <= h
         IN  SubSeq(s, i, MatchHere(re.atoms, s, i) - 1)

\* the loop of InBlackList from the entry i of the list bl on, with an entry
\* that does not compile ending the loop
RECURSIVE InBlackListStopAtError(_, _, _)
InBlackListStopAtError(bl, q, i) ==
    IF i > Len(bl) THEN FALSE
    ELSE IF q = bl[i] THEN TRUE
    ELSE LET re == Compile("(?i)" \o bl[i])
         IN  IF re.err THEN FALSE
             ELSE IF FindString(re, q) # "" THEN TRUE
             ELSE InBlackListStopAtError(bl, q, i + 1)

\* the loop of InBlackList (1239-1253) from the entry i of the list bl on
RECURSIVE InBlackListLoop(_, _, _)
InBlackListLoop(bl, q, i) ==
    IF i > Len(bl) THEN FALSE
    ELSE IF q = bl[i] THEN TRUE
    ELSE LET re == Compile("(?i)" \o bl[i])
         IN  IF ~re.err /\ FindString(re, q) # "" THEN TRUE
             ELSE InBlackListLoop(bl, q, i + 1)

\* func InBlackList(sql string) bool, reading common.BlackList
InBlackList(q) == InBlackListLoop(BlackList, q, 1)

-----------------------------------------------------------------------------
(* Collaborators outside rules.go, modelled on the model's inputs.         *)

\* query.Fingerprint (percona/go-mysql): literals become ?
Fingerprint(q) ==
    IF q = "select * from tbl where id=1" THEN "select * from tbl where id=?" ELSE q

\* query.Id (percona/go-mysql): the upper-case hex of the checksum's second half
Id(fp) ==
    IF fp = "select * from tbl where id=?" THEN "E182E0865F5BEEBB"
    ELSE IF fp = "" THEN "E9800998ECF8427E"
    ELSE "0000000000000000"

\* ast.Pretty: the query laid out over several lines
Pretty(q, f) ==
    IF q = "select * from tbl where id=1"
    THEN "SELECT\n  *\nFROM\n  tbl\nWHERE\n  id = 1"
    ELSE q

\* ast.SchemaMetaInfo: the tables a query reads, qualified with the database
SchemaMetaInfo(q, db) ==
    IF q = "select * from tbl where id=1" THEN <<db \o ".tbl">> ELSE <<>>

\* common.MarkdownEscape: a backslash before the characters markdown reads
RECURSIVE MarkdownEscape(_)
MarkdownEscape(s) ==
    LET hits == {i \in 1..Len(s) : Char(s, i) \in {"_", "*"}}
    IN  IF hits = {} THEN s
        ELSE LET i == CHOOSE x \in hits : \A y \in hits : x <= y
             IN  SubSeq(s, 1, i - 1) \o "\\" \o Char(s, i)
                 \o MarkdownEscape(SubSeq(s, i + 1, Len(s)))

\* common.Score: the text of the score line
Score(n) == "Score: " \o IntToStr(n)

\* pretty.Sprint (kr/pretty) of a Rule
PrettySprint(r) ==
    "advisor.Rule{Item:\"" \o r.Item \o "\", Severity:\"" \o r.Severity
    \o "\", Summary:\"" \o r.Summary \o "\", Content:\"" \o r.Content
    \o "\", Case:\"" \o r.Case \o "\", Position:" \o IntToStr(r.Position) \o "}"

\* The markdown code fence, three backquotes in the source; a TLA+ string cannot
\* hold a backquote, so an apostrophe stands for it.
Fence == "'''"

-----------------------------------------------------------------------------
(* FormatSuggest: merging and normalization (rules.go:1276-1304).          *)

\* the union of the input maps with an earlier map keeping its entries
RECURSIVE MergeFirstWins(_)
MergeFirstWins(ms) ==
    IF Len(ms) = 0 THEN EmptyMap
    ELSE LET before == MergeFirstWins(SubSeq(ms, 1, Len(ms) - 1))
             last == ms[Len(ms)]
         IN  [k \in DOMAIN before \cup DOMAIN last |->
                IF k \in DOMAIN before THEN before[k] ELSE last[k]]

\* the union of the input maps, a later map overwriting an earlier one (1277-1282)
RECURSIVE Merge(_)
Merge(ms) ==
    IF Len(ms) = 0 THEN EmptyMap
    ELSE LET before == Merge(SubSeq(ms, 1, Len(ms) - 1))
             last == ms[Len(ms)]
         IN  [k \in DOMAIN before \cup DOMAIN last |->
                IF k \in DOMAIN last THEN last[k] ELSE before[k]]

\* The conflict table of MergeConflictHeuristicRules: <<a, b>> says that the
\* verdict of b is dropped when a is present.
ConflictTable == {<<"KEY.007", "KEY.002">>}

\* MergeConflictHeuristicRules (defined outside rules.go)
MergeConflictHeuristicRules(m) ==
    DeleteAll(m, {c[2] : c \in {d \in ConflictTable : d[1] \in DOMAIN m}})

\* ignoreOK (1286-1291): "OK" is an entry of the ignore list, verbatim
IgnoreOK == \E i \in DOMAIN IgnoreRules : IgnoreRules[i] = "OK"

\* lines 1294-1296 left out: an empty set stays empty
EnsureNotEmptyNoSynthesis(m) == m

\* lines 1294-1296: an empty set becomes {OK}, taken from the catalog
EnsureNotEmpty(m) ==
    IF Cardinality(DOMAIN m) < 1
    THEN [k \in {"OK"} |-> Lookup(HeuristicRules, "OK")]
    ELSE m

\* lines 1297-1299 with the test len(suggest) > 1 left out
RemoveOKOnlyIfDisabled(m) == IF IgnoreOK THEN Delete(m, "OK") ELSE m

\* lines 1297-1299
RemoveOK(m) ==
    IF IgnoreOK \/ Cardinality(DOMAIN m) > 1 THEN Delete(m, "OK") ELSE m

\* lines 1300-1304
ApplyIgnore(m) == DeleteAll(m, {k \in DOMAIN m : IsIgnoreRule(k)})

\* the map suggest as it stands at line 1305
Normalize(ms) ==
    ApplyIgnore(RemoveOK(EnsureNotEmpty(MergeConflictHeuristicRules(Merge(ms)))))

\* the concatenation of a sequence of sequences
RECURSIVE Concat(_)
Concat(ss) == IF Len(ss) = 0 THEN <<>> ELSE Head(ss) \o Concat(Tail(ss))

-----------------------------------------------------------------------------
(* formatJSON (rules.go:1510-1588).                                        *)

\* one pass of the score loop (1519-1527) for the key k of the map m
JSONScoreStep(sc, m, k) ==
    LET l == Atoi(TrimLeft(m[k].Severity, "L"))
        minus == sc - l.val * 5
    IN  IF HasPrefix(k, "ERR") /\ m[k].Content # "" THEN 0 ELSE minus

\* the score loop (1518-1528) visiting the keys in the order o
RECURSIVE JSONScoreLoop(_, _, _)
JSONScoreLoop(sc, m, o) ==
    IF Len(o) = 0 THEN sc
    ELSE JSONScoreLoop(JSONScoreStep(sc, m, Head(o)), m, Tail(o))

\* lines 1517-1531: the loop, then the clamp at 0
JSONScore(m, o) ==
    LET sc == JSONScoreLoop(100, m, o)
    IN  IF sc < 0 THEN 0 ELSE sc

\* SortedRules with the sort.Strings call left out and the keys met in
\* descending order
SortedRulesUnsorted(m, ks) ==
    LET sortItem == SortStrings(ks)
    IN  [i \in 1..Len(sortItem) |-> m[sortItem[Len(sortItem) + 1 - i]]]

\* the rules of m under the keys ks, sorted by key (sort.Strings, then append)
SortedRules(m, ks) ==
    LET sortItem == SortStrings(ks)
    IN  [i \in 1..Len(sortItem) |-> m[sortItem[i]]]

\* the JSONSuggest struct as it stands at line 1579
JSONSuggest(q, db, m, o) ==
    [ID |-> Id(Fingerprint(q)),
     Fingerprint |-> Fingerprint(q),
     Score |-> JSONScore(m, o),
     Sample |-> q,
     Explain |-> SortedRules(m, {k \in DOMAIN m : HasPrefix(k, "EXP")}),
     HeuristicRules |->
        SortedRules(m, {k \in DOMAIN m :
                          /\ ~HasPrefix(k, "EXP")
                          /\ ~HasPrefix(k, "IDX")
                          /\ ~(HasPrefix(k, "ERR") /\ m[k].Content = "")}),
     IndexRules |-> SortedRules(m, {k \in DOMAIN m : HasPrefix(k, "IDX")}),
     Tables |-> SchemaMetaInfo(q, db)]

\* the zero value of JSONSuggest
ZeroJSONSuggest ==
    [ID |-> "", Fingerprint |-> "", Score |-> 0, Sample |-> "", Explain |-> <<>>,
     HeuristicRules |-> <<>>, IndexRules |-> <<>>, Tables |-> <<>>]

\* encoding/json of a Rule (Func is tagged json:"-")
MarshalRule(r) ==
    "{\"Item\": \"" \o r.Item \o "\", \"Severity\": \"" \o r.Severity
    \o "\", \"Summary\": \"" \o r.Summary \o "\", \"Content\": \"" \o r.Content
    \o "\", \"Case\": \"" \o r.Case \o "\", \"Position\": " \o IntToStr(r.Position) \o "}"

\* encoding/json of a slice of rules; a nil slice is null
MarshalRules(rs) ==
    IF Len(rs) = 0 THEN "null"
    ELSE "[" \o Join([i \in 1..Len(rs) |-> MarshalRule(rs[i])], ", ") \o "]"

\* encoding/json of a slice of strings; a nil slice is null
MarshalStrings(ss) ==
    IF Len(ss) = 0 THEN "null"
    ELSE "[" \o Join([i \in 1..Len(ss) |-> "\"" \o ss[i] \o "\""], ", ") \o "]"

\* json.MarshalIndent of a JSONSuggest (1581-1587), the fields in the order of
\* the struct; the indentation and the escaping of string bytes are left out
MarshalIndent(s) ==
    "{\"ID\": \"" \o s.ID \o "\", \"Fingerprint\": \"" \o s.Fingerprint
    \o "\", \"Score\": " \o IntToStr(s.Score) \o ", \"Sample\": \"" \o s.Sample
    \o "\", \"Explain\": " \o MarshalRules(s.Explain)
    \o ", \"HeuristicRules\": " \o MarshalRules(s.HeuristicRules)
    \o ", \"IndexRules\": " \o MarshalRules(s.IndexRules)
    \o ", \"Tables\": " \o MarshalStrings(s.Tables) \o "}"

\* func formatJSON(sql string, db string, suggest map[string]Rule) string
formatJSON(q, db, m, o) == MarshalIndent(JSONSuggest(q, db, m, o))

-----------------------------------------------------------------------------
(* FormatSuggest: the format switch (rules.go:1306-1482).                  *)

\* id as FormatSuggest computes it (1271-1274): empty for an empty query
QueryId(q) == IF q # "" THEN Id(Fingerprint(q)) ELSE ""

\* case "text" (1310-1318), the map visited in the order o
TextBuf(q, m, o) ==
    Concat([i \in 1..Len(o) |->
              << "Query:  " \o q \o "\n",
                 "ID:  " \o QueryId(q) \o "\n",
                 "Item:  " \o o[i] \o "\n",
                 "Severity:  " \o m[o[i]].Severity \o "\n",
                 "Summary:  " \o m[o[i]].Summary \o "\n",
                 "Content:  " \o m[o[i]].Content \o "\n" >>])

\* case "lint" (1319-1325), the map visited in the order o
LintBuf(m, o) ==
    Concat([i \in 1..Len(o) |->
              IF o[i] # "OK" /\ ~HasPrefix(o[i], "EXP")
              THEN << o[i] \o " " \o m[o[i]].Summary >>
              ELSE <<>>])

\* default (1476-1481), the map visited in the order o
DefaultBuf(q, m, o) ==
    << "Query:  " \o q \o "\n" >> \o [i \in 1..Len(o) |-> PrettySprint(m[o[i]])]

\* the query header of the structured formats (1328-1340)
HeaderBuf(q, f, m) ==
    IF q # "" /\ Cardinality(DOMAIN m) > 0
    THEN << "# Query: " \o QueryId(q) \o "\n",
            Fence \o "sql\n"
            \o (CASE ExplainSQLReportType = "fingerprint" -> Fingerprint(q)
                  [] ExplainSQLReportType = "sample" -> q
                  [] OTHER -> Pretty(q, f))
            \o "\n" \o Fence \o "\n" >>
    ELSE <<>>

\* lines 1431-1437 and 1465-1471: the deduction of one rendered verdict
Deduct(sc, severity) ==
    LET minus == Atoi(Trim(severity, "L"))
    IN  IF ~minus.err THEN sc - minus.val * 5 ELSE 0

\* the score after the verdicts of m under the keys ks, a sorted sequence, were
\* rendered one after the other; the heuristic loop skips OK (1460-1462)
RECURSIVE DeductAll(_, _, _)
DeductAll(sc, m, ks) ==
    IF Len(ks) = 0 THEN sc
    ELSE IF Head(ks) = "OK" THEN DeductAll(sc, m, Tail(ks))
    ELSE DeductAll(Deduct(sc, m[Head(ks)].Severity), m, Tail(ks))

\* the keys of m with the prefix p, sorted
SortedPrefix(m, p) == SortStrings({k \in DOMAIN m : HasPrefix(k, p)})

\* lines 1343-1361: the MySQL error bucket
SortedMySQLSuggest(m) ==
    SortStrings({k \in DOMAIN m : HasPrefix(k, "ERR") /\ m[k].Content # ""})

\* the keys of the heuristic loop with the IDX test of line 1453 left out
SortedHeuristicSuggestWithIDX(m) ==
    SortStrings({k \in DOMAIN m : ~HasPrefix(k, "EXP") /\ ~HasPrefix(k, "PRO")})

\* the keys the heuristic loop collects (1450-1456)
SortedHeuristicSuggest(m) ==
    SortStrings({k \in DOMAIN m :
                   /\ ~HasPrefix(k, "EXP")
                   /\ ~HasPrefix(k, "IDX")
                   /\ ~HasPrefix(k, "PRO")})

\* one titled bucket whose verdicts are rendered by their Content (ERR, PRO, TRA)
ContentBucket(title, m, ks) ==
    (IF Len(ks) > 0 THEN <<title>> ELSE <<>>)
    \o [i \in 1..Len(ks) |-> m[ks[i]].Content \o "\n"]

\* lines 1427-1445: one index verdict
IdxLines(f, m, k) ==
    << "##  " \o MarkdownEscape(m[k].Summary) \o "\n",
       "* **Item:**  " \o k \o "\n",
       "* **Severity:**  " \o m[k].Severity \o "\n",
       "* **Content:**  " \o MarkdownEscape(m[k].Content) \o "\n" >>
    \o (IF f = "duplicate-key-checker"
        THEN << "* **Original create table statement:** \n" \o Fence \o "sql\n"
                \o m[k].Case \o "\n" \o Fence \o "\n", "\n\n" >>
        ELSE << "* **Case:** " \o MarkdownEscape(m[k].Case) \o "\n\n" >>)

\* lines 1458-1474: one heuristic verdict
HeuristicLines(m, k) ==
    << "## " \o m[k].Summary \o "\n" >>
    \o (IF k = "OK" THEN <<>>
        ELSE << "* **Item:**  " \o k \o "\n",
                "* **Severity:**  " \o m[k].Severity \o "\n",
                "* **Content:**  " \o MarkdownEscape(m[k].Content) \o "\n" >>)

\* the summary and the other explain verdicts (1365-1382)
ExplainLines(title, r) ==
    << title \o "  " \o r.Summary \o "\n", r.Content \o "\n", r.Case \o "\n" >>

\* case "markdown", "html", "explain-digest", "duplicate-key-checker" (1327-1474):
\* the map, buf and score as they stand when the case ends
Structured(q, f, m) ==
    LET errs == SortedMySQLSuggest(m)
        m1 == DeleteAll(m, {k \in DOMAIN m : HasPrefix(k, "ERR")})
        score1 == IF Len(errs) > 0 THEN 0 ELSE 100
        exp0 == Lookup(m1, "EXP.000").Item # ""
        m2 == IF exp0 THEN Delete(m1, "EXP.000") ELSE m1
        exps == SortedPrefix(m2, "EXP")
        pros == SortedPrefix(m2, "PRO")
        m3 == DeleteAll(m2, Range(pros))
        tras == SortedPrefix(m3, "TRA")
        m4 == DeleteAll(m3, Range(tras))
        idxs == SortedPrefix(m4, "IDX")
        score2 == DeductAll(score1, m4, idxs)
        heus == SortedHeuristicSuggest(m4)
        score3 == DeductAll(score2, m4, heus)
    IN  [suggest |-> m4,
         score |-> score3,
         buf |-> HeaderBuf(q, f, m)
                 \o ContentBucket("## MySQL execute failed\n", m, errs)
                 \o (IF exp0 THEN ExplainLines("##", m1["EXP.000"]) ELSE <<>>)
                 \o Concat([i \in 1..Len(exps) |-> ExplainLines("###", m2[exps[i]])])
                 \o ContentBucket("## Profiling info\n", m2, pros)
                 \o ContentBucket("## Trace info\n", m3, tras)
                 \o Concat([i \in 1..Len(idxs) |-> IdxLines(f, m4, idxs[i])])
                 \o Concat([i \in 1..Len(heus) |-> HeuristicLines(m4, heus[i])])]

StructuredFormats == {"markdown", "html", "explain-digest", "duplicate-key-checker"}

\* the switch on format (1306-1482): the map, buf and score when it ends
Render(q, db, f, m, o) ==
    CASE f = "json" ->
           [suggest |-> m, score |-> 100, buf |-> << formatJSON(q, db, m, o) >>]
      [] f = "text" ->
           [suggest |-> m, score |-> 100, buf |-> TextBuf(q, m, o)]
      [] f = "lint" ->
           [suggest |-> m, score |-> 100, buf |-> LintBuf(m, o)]
      [] f \in StructuredFormats -> Structured(q, f, m)
      [] OTHER ->
           [suggest |-> m, score |-> 100, buf |-> DefaultBuf(q, m, o)]

\* the score switch (1484-1493): the returned string
Assemble(b, sc) ==
    IF ReportType \in {"markdown", "html"}
    THEN IF Len(b) > 1
         THEN b[1] \o "\n" \o Score(sc) \o "\n\n" \o Join(Tail(b), "\n")
         ELSE ""
    ELSE Join(b, "\n")

-----------------------------------------------------------------------------
(* ListHeuristicRules (rules.go:1591-1612).                                *)

\* one rule of the listing (1603-1607)
ListingEntry(r) ==
    "## " \o MarkdownEscape(r.Summary)
    \o "\n\n* **Item**:" \o r.Item
    \o "\n* **Severity**:" \o r.Severity
    \o "\n* **Content**:" \o MarkdownEscape(r.Content)
    \o "\n* **Case**:\n\n" \o Fence \o "sql\n" \o r.Case \o "\n" \o Fence \o "\n"

\* what the default branch prints for one map r, OK deleted from it first
Listing(r) ==
    LET keys == SortStrings(DOMAIN r \ {"OK"})
    IN  Join([i \in 1..Len(keys) |-> ListingEntry(r[keys[i]])], "")

\* what the json branch prints for one map r: the keys in ascending order
MarshalMap(r) ==
    LET keys == SortStrings(DOMAIN r)
    IN  "[{" \o Join([i \in 1..Len(keys) |->
                        "\"" \o keys[i] \o "\": " \o MarshalRule(r[keys[i]])], ", ")
        \o "}]\n"

-----------------------------------------------------------------------------
(* The state machine.                                                      *)

\* the database name the callers pass as currentDB
CurrentDB == "test"

\* the ignore lists of the configurations the pipeline is run under
IgnoreLists == {<<>>, <<"COL*">>, <<"OK">>, <<"O">>, <<"OK", "COL*">>}

\* the variadic argument: no map, or one map of at most MaxVerdicts verdicts
SuggestsInputs == {<<>>} \cup {<<m>> : m \in VerdictMaps(MaxVerdicts)}

NoCall ==
    /\ suggest = EmptyMap
    /\ normalized = EmptyMap
    /\ buf = <<>>
    /\ score = 100
    /\ sug = ZeroJSONSuggest
    /\ str = ""
    /\ order = <<>>
    /\ stdout = ""
    /\ listed = <<>>
    /\ target = 0

\* InBlackList was not called and the block list is empty
NoBlackList == BlackList = <<>> /\ in = FALSE

\* no reload runs and no concurrent reader looks at the catalog
NoReload ==
    /\ objs = <<>>
    /\ ptr = 0
    /\ tmp = 0
    /\ todo = <<>>
    /\ reader = 0
    /\ observed = <<>>

\* a nil pointer, slice or interface value
NilPointer == [nil |-> TRUE]

\* the catalog literal is not being evaluated and NewQuery4Audit was not called
NoAudit ==
    /\ evaluated = EmptyMap
    /\ inserted = 0
    /\ audit = NilPointer
    /\ auditErr = "nil"

\* the configurations the pipeline is run under: every ignore list with every
\* report type, and every display mode of the query under the empty ignore list
\* and the markdown report type
Configs ==
    {c \in [IgnoreRules : IgnoreLists, ReportType : ReportTypes,
            ExplainSQLReportType : ExplainSQLReportTypes] :
        (c.IgnoreRules # <<>> \/ c.ReportType # "markdown")
            => c.ExplainSQLReportType = "pretty"}

\* The package is loaded (init calls InitHeuristicRules), the configuration is
\* read, and no call was made yet.
Init ==
    /\ HeuristicRules = HeuristicRulesLiteral
    /\ \E c \in Configs :
         /\ IgnoreRules = c.IgnoreRules
         /\ ReportType = c.ReportType
         /\ ExplainSQLReportType = c.ExplainSQLReportType
    /\ pc = "idle"
    /\ sql = ""
    /\ format = ""
    /\ suggests = <<>>
    /\ NoCall
    /\ argItem = ""
    /\ ignored = FALSE
    /\ NoBlackList
    /\ NoReload
    /\ NoAudit

\* func InitHeuristicRules(): the catalog variable is assigned the map literal
InitHeuristicRules ==
    /\ pc = "idle"
    /\ HeuristicRules' = HeuristicRulesLiteral
    /\ UNCHANGED <<IgnoreRules, ReportType, ExplainSQLReportType, pc, sql, format,
                   suggests, suggest, normalized, buf, score, sug, str, order,
                   stdout, argItem, ignored, blackVars, reloadVars, catalogVars,
                   auditVars, listed, target>>

\* ListHeuristicRules(HeuristicRules), the call of the -list-heuristic-rules flag
ListHeuristicRules ==
    /\ pc = "idle"
    /\ IF ReportType = "json"
       THEN /\ stdout' = MarshalMap(HeuristicRules)
            /\ listed' = SortStrings(DOMAIN HeuristicRules)
            /\ UNCHANGED HeuristicRules
       ELSE /\ stdout' = "# Heuristic rule suggestions\n\n[toc]\n\n"
                         \o Listing(HeuristicRules)
            /\ listed' = SortStrings(DOMAIN HeuristicRules \ {"OK"})
            /\ HeuristicRules' = Delete(HeuristicRules, "OK")
    /\ UNCHANGED <<IgnoreRules, ReportType, ExplainSQLReportType, pc, sql, format,
                   suggests, suggest, normalized, buf, score, sug, str, order,
                   argItem, ignored, blackVars, reloadVars, catalogVars,
                   auditVars, target>>

\* The orders in which the range loops of one call may visit the map m.  The
\* loops of the structured formats only collect keys into slices that are sorted
\* before use, or delete, so one order stands for all of them there.
VisitOrders(f, m) ==
    IF f \in StructuredFormats THEN {SortStrings(DOMAIN m)} ELSE Orders(DOMAIN m)

\* func FormatSuggest(sql, currentDB, format, suggests...) (map[string]Rule, string)
\* called with the arguments q, f and ms; o is the order in which the range
\* loops of this call visit the map
FormatSuggest ==
    /\ pc = "idle"
    /\ \E q \in Queries, f \in Formats, ms \in SuggestsInputs :
         LET m == Normalize(ms)
         IN  \E o \in VisitOrders(f, m) :
               LET r == Render(q, CurrentDB, f, m, o)
               IN  /\ sql' = q
                   /\ format' = f
                   /\ suggests' = ms
                   /\ normalized' = m
                   /\ order' = o
                   /\ suggest' = r.suggest
                   /\ buf' = r.buf
                   /\ score' = r.score
                   /\ sug' = IF f = "json"
                             THEN JSONSuggest(q, CurrentDB, m, o)
                             ELSE ZeroJSONSuggest
                   /\ str' = Assemble(r.buf, r.score)
    /\ pc' = "done"
    /\ UNCHANGED <<HeuristicRules, IgnoreRules, ReportType, ExplainSQLReportType,
                   stdout, argItem, ignored, blackVars, reloadVars, catalogVars,
                   auditVars, listed, target>>

Next == InitHeuristicRules \/ ListHeuristicRules \/ FormatSuggest

Spec == Init /\ [][Next]_vars

-----------------------------------------------------------------------------
(* IsIgnoreRule on its own: the ignore list and the item are drawn freely. *)

\* the patterns of the ignore lists IsIgnoreRule is tried on
IgnoreRulePatterns == {"COL", "COL*", "OK", "OK*", "O", "O*", "", "*", "KEY.002"}

\* the items IsIgnoreRule is asked about: COL.001 .. COL.019 and others
IgnoreItems ==
    {"COL.00" \o Char(Digits, d + 1) : d \in 1..9}
    \cup {"COL.01" \o Char(Digits, d + 1) : d \in 0..9}
    \cup {"COLX.001", "OK", "KEY.002", "KEY.007", "CLA.001", "ERR.000"}

InitIgnore ==
    /\ HeuristicRules = HeuristicRulesLiteral
    /\ IgnoreRules \in SeqsUpTo(IgnoreRulePatterns, MaxIgnore)
    /\ ReportType = "markdown"
    /\ ExplainSQLReportType = "pretty"
    /\ pc = "idle"
    /\ sql = ""
    /\ format = ""
    /\ suggests = <<>>
    /\ NoCall
    /\ argItem = ""
    /\ ignored = FALSE
    /\ NoBlackList
    /\ NoReload
    /\ NoAudit

\* a call IsIgnoreRule(it) and its result
IsIgnoreRuleCall ==
    /\ pc = "idle"
    /\ \E it \in IgnoreItems :
         /\ argItem' = it
         /\ ignored' = IsIgnoreRule(it)
    /\ pc' = "done"
    /\ UNCHANGED <<HeuristicRules, IgnoreRules, ReportType, ExplainSQLReportType,
                   sql, format, suggests, suggest, normalized, buf, score, sug,
                   str, order, stdout, blackVars, reloadVars, catalogVars,
                   auditVars, listed, target>>

NextIgnore == IsIgnoreRuleCall

SpecIgnore == InitIgnore /\ [][NextIgnore]_vars

-----------------------------------------------------------------------------
(* InBlackList on its own: the block list and the text are drawn freely.   *)

\* Largest number of entries in the block list.
MaxBlackList == 2

\* the entries the block lists are made of: literal texts, expressions, an
\* empty line, and an entry that is no valid expression
BlackListEntries ==
    {"select 1", "DELETE", "select (", "", "x*", "^truncate", "dro+p t"}

\* the texts InBlackList is asked about
BlackListSubjects ==
    {"", "select 1", "select (", "delete from tbl", "Truncate table t",
     "drop table t", "update t set x=1"}

InitBlackList ==
    /\ HeuristicRules = HeuristicRulesLiteral
    /\ IgnoreRules = <<>>
    /\ ReportType = "markdown"
    /\ ExplainSQLReportType = "pretty"
    /\ pc = "idle"
    /\ sql = ""
    /\ format = ""
    /\ suggests = <<>>
    /\ NoCall
    /\ argItem = ""
    /\ ignored = FALSE
    /\ BlackList \in SeqsUpTo(BlackListEntries, MaxBlackList)
    /\ in = FALSE
    /\ NoReload
    /\ NoAudit

\* a call InBlackList(q) and its result
InBlackListCall ==
    /\ pc = "idle"
    /\ \E q \in BlackListSubjects :
         /\ sql' = q
         /\ in' = InBlackList(q)
    /\ pc' = "done"
    /\ UNCHANGED <<HeuristicRules, IgnoreRules, ReportType, ExplainSQLReportType,
                   format, suggests, suggest, normalized, buf, score, sug, str,
                   order, stdout, argItem, ignored, BlackList, reloadVars,
                   catalogVars, auditVars, listed, target>>

NextBlackList == InBlackListCall

SpecBlackList == InitBlackList /\ [][NextBlackList]_vars

-----------------------------------------------------------------------------
(* InitHeuristicRules run again while another goroutine reads the catalog. *)
(* A Go map is a reference: objs holds the map objects by address, the     *)
(* variable HeuristicRules holds the address ptr.                          *)

\* Largest number of reloads after the one of package init.
MaxReloads == 2

\* the keys of the map literal in the order of the source (120-1217)
LiteralOrder == <<"OK", "ARG.005", "COL.001", "KEY.002", "KEY.007">>

\* the catalogs the program can hold when a reload starts: the literal, and the
\* literal after ListHeuristicRules deleted OK from it
LoadedCatalogs == {HeuristicRulesLiteral, Delete(HeuristicRulesLiteral, "OK")}

\* the composite literal of line 119 allocates a new map: the heap after the
\* allocation and the address of the new map
NewMap(os, p) == [objs |-> Append(os, EmptyMap), at |-> Len(os) + 1]

\* the map m cut to the keys ks
Restrict(m, ks) == [k \in ks |-> m[k]]

\* What a reader may find behind the address a.  The map of package init was
\* published before any goroutine started.  A map built by a later
\* InitHeuristicRules is published by the plain assignment of line 119: no
\* lock, channel or atomic orders its inserts before the reader's loads, a data
\* race in which the reader may find any part of the inserts.
Visible(os, a) ==
    IF a = 1 THEN {os[a]}
    ELSE {Restrict(os[a], ks) : ks \in SUBSET DOMAIN os[a]}

InitReload ==
    /\ HeuristicRules \in LoadedCatalogs
    /\ IgnoreRules = <<>>
    /\ ReportType = "markdown"
    /\ ExplainSQLReportType = "pretty"
    /\ pc = "idle"
    /\ sql = ""
    /\ format = ""
    /\ suggests = <<>>
    /\ NoCall
    /\ argItem = ""
    /\ ignored = FALSE
    /\ NoBlackList
    /\ NoAudit
    /\ objs = <<HeuristicRules>>
    /\ ptr = 1
    /\ tmp = 0
    /\ todo = <<>>
    /\ reader = 0
    /\ observed = <<>>

otherVars ==
    <<IgnoreRules, ReportType, ExplainSQLReportType, pc, sql, format, suggests,
      suggest, normalized, buf, score, sug, str, order, stdout, argItem, ignored,
      blackVars, catalogVars, auditVars, listed, target>>

\* InitHeuristicRules is entered: the map of the literal is allocated
ReloadBegin ==
    /\ tmp = 0
    /\ Len(objs) <= MaxReloads
    /\ LET new == NewMap(objs, ptr)
       IN  /\ objs' = new.objs
           /\ tmp' = new.at
           /\ HeuristicRules' = new.objs[ptr]
    /\ todo' = LiteralOrder
    /\ UNCHANGED <<ptr, reader, observed, otherVars>>

\* the next entry of the literal is inserted into the map under construction
ReloadInsert ==
    /\ tmp # 0
    /\ todo # <<>>
    /\ LET k == Head(todo)
           built == [x \in DOMAIN objs[tmp] \cup {k} |->
                       IF x = k THEN HeuristicRulesLiteral[k] ELSE objs[tmp][x]]
       IN  /\ objs' = [objs EXCEPT ![tmp] = built]
           /\ HeuristicRules' = objs'[ptr]
    /\ todo' = Tail(todo)
    /\ UNCHANGED <<ptr, tmp, reader, observed, otherVars>>

\* the assignment of line 119: the variable takes the address of the built map
ReloadPublish ==
    /\ tmp # 0
    /\ todo = <<>>
    /\ ptr' = tmp
    /\ HeuristicRules' = objs[tmp]
    /\ tmp' = 0
    /\ UNCHANGED <<objs, todo, reader, observed, otherVars>>

\* a reader loads the variable HeuristicRules (as line 1295 does)
ReaderLoad ==
    /\ reader = 0
    /\ reader' = ptr
    /\ UNCHANGED <<HeuristicRules, objs, ptr, tmp, todo, observed, otherVars>>

\* the reader looks into the map whose address it loaded
ReaderRead ==
    /\ reader # 0
    /\ \E m \in Visible(objs, reader) : observed' = <<m>>
    /\ reader' = 0
    /\ UNCHANGED <<HeuristicRules, objs, ptr, tmp, todo, otherVars>>

NextReload ==
    ReloadBegin \/ ReloadInsert \/ ReloadPublish \/ ReaderLoad \/ ReaderRead

SpecReload == InitReload /\ [][NextReload]_vars

-----------------------------------------------------------------------------
(* The catalog literal of InitHeuristicRules (rules.go:119-1217), entry by  *)
(* entry.                                                                   *)

\* an entry of the literal with its Func left nil
EntryNoFunc(key, item, severity, func) ==
    [key |-> key, rule |-> [Item |-> item, Severity |-> severity, Func |-> ""]]

\* one entry of the literal: its key, and the Item, Severity and Func of its
\* Rule (Func by the name of the method; "" stands for nil)
Entry(key, item, severity, func) ==
    [key |-> key, rule |-> [Item |-> item, Severity |-> severity, Func |-> func]]

\* the entries of the literal in the order of the source: key, Item, Severity
\* and Func of each, verbatim
CatalogLiteral ==
    <<
       Entry("OK", "OK", "L0", "RuleOK"),
       Entry("ALI.001", "ALI.001", "L0", "RuleImplicitAlias"),
       Entry("ALI.002", "ALI.002", "L8", "RuleStarAlias"),
       Entry("ALI.003", "ALI.003", "L1", "RuleSameAlias"),
       Entry("ALT.001", "ALT.001", "L4", "RuleAlterCharset"),
       Entry("ALT.002", "ALT.002", "L2", "RuleOK"),
       Entry("ALT.003", "ALT.003", "L0", "RuleAlterDropColumn"),
       Entry("ALT.004", "ALT.004", "L0", "RuleAlterDropKey"),
       Entry("ARG.001", "ARG.001", "L4", "RulePrefixLike"),
       Entry("ARG.002", "ARG.002", "L1", "RuleEqualLike"),
       Entry("ARG.003", "ARG.003", "L4", "RuleOK"),
       Entry("ARG.004", "ARG.004", "L4", "RuleIn"),
       Entry("ARG.005", "ARG.005", "L1", "RuleIn"),
       Entry("ARG.006", "ARG.006", "L1", "RuleIsNullIsNotNull"),
       Entry("ARG.007", "ARG.007", "L3", "RulePatternMatchingUsage"),
       Entry("ARG.008", "ARG.008", "L1", "RuleORUsage"),
       Entry("ARG.009", "ARG.009", "L1", "RuleSpaceWithQuote"),
       Entry("ARG.010", "ARG.010", "L1", "RuleHint"),
       Entry("ARG.011", "ARG.011", "L3", "RuleNot"),
       Entry("ARG.012", "ARG.012", "L2", "RuleInsertValues"),
       Entry("ARG.013", "ARG.013", "L0", "RuleFullWidthQuote"),
       Entry("ARG.014", "ARG.014", "L4", "RuleIn"),
       Entry("CLA.001", "CLA.001", "L4", "RuleNoWhere"),
       Entry("CLA.002", "CLA.002", "L3", "RuleOrderByRand"),
       Entry("CLA.003", "CLA.003", "L2", "RuleOffsetLimit"),
       Entry("CLA.004", "CLA.004", "L2", "RuleGroupByConst"),
       Entry("CLA.005", "CLA.005", "L2", "RuleOrderByConst"),
       Entry("CLA.006", "CLA.006", "L4", "RuleDiffGroupByOrderBy"),
       Entry("CLA.007", "CLA.007", "L2", "RuleMixOrderBy"),
       Entry("CLA.008", "CLA.008", "L2", "RuleExplicitOrderBy"),
       Entry("CLA.009", "CLA.009", "L2", "RuleOrderByExpr"),
       Entry("CLA.010", "CLA.010", "L2", "RuleGroupByExpr"),
       Entry("CLA.011", "CLA.011", "L1", "RuleTblCommentCheck"),
       Entry("CLA.012", "CLA.012", "L2", "RuleSpaghettiQueryAlert"),
       Entry("CLA.013", "CLA.013", "L3", "RuleHavingClause"),
       Entry("CLA.014", "CLA.014", "L2", "RuleNoWhere"),
       Entry("CLA.015", "CLA.015", "L4", "RuleNoWhere"),
       Entry("CLA.016", "CLA.016", "L2", "RuleOK"),
       Entry("COL.001", "COL.001", "L1", "RuleSelectStar"),
       Entry("COL.002", "COL.002", "L2", "RuleInsertColDef"),
       Entry("COL.003", "COL.003", "L2", "RuleAutoIncUnsigned"),
       Entry("COL.004", "COL.004", "L1", "RuleAddDefaultValue"),
       Entry("COL.005", "COL.005", "L1", "RuleColCommentCheck"),
       Entry("COL.006", "COL.006", "L3", "RuleTooManyFields"),
       Entry("COL.007", "COL.007", "L3", "RuleTooManyFields"),
       Entry("COL.008", "COL.008", "L1", "RuleVarcharVSChar"),
       Entry("COL.009", "COL.009", "L2", "RuleImpreciseDataType"),
       Entry("COL.010", "COL.010", "L2", "RuleValuesInDefinition"),
       Entry("COL.011", "COL.011", "L0", "RuleNullUsage"),
       Entry("COL.012", "COL.012", "L5", "RuleBLOBNotNull"),
       Entry("COL.013", "COL.013", "L4", "RuleTimestampDefault"),
       Entry("COL.014", "COL.014", "L5", "RuleColumnWithCharset"),
       Entry("COL.015", "COL.015", "L4", "RuleBlobDefaultValue"),
       Entry("COL.016", "COL.016", "L1", "RuleIntPrecision"),
       Entry("COL.017", "COL.017", "L2", "RuleVarcharLength"),
       Entry("COL.018", "COL.018", "L9", "RuleColumnNotAllowType"),
       Entry("COL.019", "COL.019", "L1", "RuleTimePrecision"),
       Entry("DIS.001", "DIS.001", "L1", "RuleDistinctUsage"),
       Entry("DIS.002", "DIS.002", "L3", "RuleCountDistinctMultiCol"),
       Entry("DIS.003", "DIS.003", "L3", "RuleDistinctStar"),
       Entry("FUN.001", "FUN.001", "L2", "RuleCompareWithFunction"),
       Entry("FUN.002", "FUN.002", "L1", "RuleCountStar"),
       Entry("FUN.003", "FUN.003", "L3", "RuleStringConcatenation"),
       Entry("FUN.004", "FUN.004", "L4", "RuleSysdate"),
       Entry("FUN.005", "FUN.005", "L1", "RuleCountConst"),
       Entry("FUN.006", "FUN.006", "L1", "RuleSumNPE"),
       Entry("FUN.007", "FUN.007", "L1", "RuleForbiddenTrigger"),
       Entry("FUN.008", "FUN.008", "L1", "RuleForbiddenProcedure"),
       Entry("FUN.009", "FUN.009", "L1", "RuleForbiddenFunction"),
       Entry("GRP.001", "GRP.001", "L2", "RuleOK"),
       Entry("JOI.001", "JOI.001", "L2", "RuleCommaAnsiJoin"),
       Entry("JOI.002", "JOI.002", "L4", "RuleDupJoin"),
       Entry("JOI.003", "JOI.003", "L4", "RuleOK"),
       Entry("JOI.004", "JOI.004", "L4", "RuleOK"),
       Entry("JOI.005", "JOI.005", "L2", "RuleReduceNumberOfJoin"),
       Entry("JOI.006", "JOI.006", "L4", "RuleNestedSubQueries"),
       Entry("JOI.007", "JOI.007", "L4", "RuleMultiDeleteUpdate"),
       Entry("JOI.008", "JOI.008", "L4", "RuleMultiDBJoin"),
       Entry("KEY.001", "KEY.001", "L2", "RulePKNotInt"),
       Entry("KEY.002", "KEY.002", "L4", "RuleNoOSCKey"),
       Entry("KEY.003", "KEY.003", "L4", "RuleRecursiveDependency"),
       Entry("KEY.004", "KEY.004", "L0", "RuleIndexAttributeOrder"),
       Entry("KEY.005", "KEY.005", "L2", "RuleTooManyKeys"),
       Entry("KEY.006", "KEY.006", "L4", "RuleTooManyKeyParts"),
       Entry("KEY.007", "KEY.007", "L4", "RulePKNotInt"),
       Entry("KEY.008", "KEY.008", "L4", "RuleOrderByMultiDirection"),
       Entry("KEY.009", "KEY.009", "L0", "RuleUniqueKeyDup"),
       Entry("KEY.010", "KEY.010", "L0", "RuleFulltextIndex"),
       Entry("KWR.001", "KWR.001", "L2", "RuleSQLCalcFoundRows"),
       Entry("KWR.002", "KWR.002", "L2", "RuleUseKeyWord"),
       Entry("KWR.003", "KWR.003", "L1", "RulePluralWord"),
       Entry("KWR.004", "KWR.004", "L1", "RuleMultiBytesWord"),
       Entry("KWR.005", "KWR.005", "L1", "RuleInvisibleUnicode"),
       Entry("LCK.001", "LCK.001", "L3", "RuleInsertSelect"),
       Entry("LCK.002", "LCK.002", "L3", "RuleInsertOnDup"),
       Entry("LIT.001", "LIT.001", "L2", "RuleIPString"),
       Entry("LIT.002", "LIT.002", "L4", "RuleDataNotQuote"),
       Entry("LIT.003", "LIT.003", "L3", "RuleMultiValueAttribute"),
       Entry("LIT.004", "LIT.004", "L1", "RuleOK"),
       Entry("RES.001", "RES.001", "L4", "RuleNoDeterministicGroupby"),
       Entry("RES.002", "RES.002", "L4", "RuleNoDeterministicLimit"),
       Entry("RES.003", "RES.003", "L4", "RuleUpdateDeleteWithLimit"),
       Entry("RES.004", "RES.004", "L4", "RuleUpdateDeleteWithOrderby"),
       Entry("RES.005", "RES.005", "L4", "RuleUpdateSetAnd"),
       Entry("RES.006", "RES.006", "L4", "RuleImpossibleWhere"),
       Entry("RES.007", "RES.007", "L4", "RuleMeaninglessWhere"),
       Entry("RES.008", "RES.008", "L2", "RuleLoadFile"),
       Entry("RES.009", "RES.009", "L2", "RuleMultiCompare"),
       Entry("RES.010", "RES.010", "L2", "RuleCreateOnUpdate"),
       Entry("RES.011", "RES.011", "L2", "RuleOK"),
       Entry("SEC.001", "SEC.001", "L0", "RuleTruncateTable"),
       Entry("SEC.002", "SEC.002", "L0", "RuleReadablePasswords"),
       Entry("SEC.003", "SEC.003", "L0", "RuleDataDrop"),
       Entry("SEC.004", "SEC.004", "L0", "RuleInjection"),
       Entry("STA.001", "STA.001", "L0", "RuleStandardINEQ"),
       Entry("STA.002", "STA.002", "L1", "RuleSpaceAfterDot"),
       Entry("STA.003", "STA.003", "L1", "RuleIdxPrefix"),
       Entry("STA.004", "STA.004", "L1", "RuleStandardName"),
       Entry("SUB.001", "SUB.001", "L4", "RuleInSubquery"),
       Entry("SUB.002", "SUB.002", "L2", "RuleUNIONUsage"),
       Entry("SUB.003", "SUB.003", "L3", "RuleDistinctJoinUsage"),
       Entry("SUB.004", "SUB.004", "L3", "RuleSubqueryDepth"),
       Entry("SUB.005", "SUB.005", "L8", "RuleSubQueryLimit"),
       Entry("SUB.006", "SUB.006", "L2", "RuleSubQueryFunctions"),
       Entry("SUB.007", "SUB.007", "L2", "RuleUNIONLimit"),
       Entry("TBL.001", "TBL.001", "L4", "RulePartitionNotAllowed"),
       Entry("TBL.002", "TBL.002", "L4", "RuleAllowEngine"),
       Entry("TBL.003", "TBL.003", "L8", "RuleCreateDualTable"),
       Entry("TBL.004", "TBL.004", "L2", "RuleAutoIncrementInitNotZero"),
       Entry("TBL.005", "TBL.005", "L4", "RuleTableCharsetCheck"),
       Entry("TBL.006", "TBL.006", "L1", "RuleForbiddenView"),
       Entry("TBL.007", "TBL.007", "L1", "RuleForbiddenTempTable"),
       Entry("TBL.008", "TBL.008", "L4", "RuleTableCharsetCheck")
    >>

InitCatalog ==
    /\ HeuristicRules = EmptyMap
    /\ IgnoreRules = <<>>
    /\ ReportType = "markdown"
    /\ ExplainSQLReportType = "pretty"
    /\ pc = "idle"
    /\ sql = ""
    /\ format = ""
    /\ suggests = <<>>
    /\ NoCall
    /\ argItem = ""
    /\ ignored = FALSE
    /\ NoBlackList
    /\ NoReload
    /\ NoAudit

\* the next entry of the composite literal is evaluated and stored under its key
EvaluateEntry ==
    /\ pc = "idle"
    /\ inserted < Len(CatalogLiteral)
    /\ LET e == CatalogLiteral[inserted + 1]
       IN  evaluated' = [k \in DOMAIN evaluated \cup {e.key} |->
                           IF k = e.key THEN e.rule ELSE evaluated[k]]
    /\ inserted' = inserted + 1
    /\ UNCHANGED <<HeuristicRules, IgnoreRules, ReportType, ExplainSQLReportType, pc,
                   sql, format, suggests, suggest, normalized, buf, score, sug, str,
                   order, stdout, argItem, ignored, blackVars, reloadVars, auditVars,
                   listed, target>>

\* the assignment of line 119: the variable HeuristicRules takes the map (the
\* model keeps the entries whose Items its verdicts use)
AssignCatalog ==
    /\ pc = "idle"
    /\ inserted = Len(CatalogLiteral)
    /\ HeuristicRules' = HeuristicRulesLiteral
    /\ pc' = "done"
    /\ UNCHANGED <<IgnoreRules, ReportType, ExplainSQLReportType, sql, format,
                   suggests, suggest, normalized, buf, score, sug, str, order, stdout,
                   argItem, ignored, blackVars, reloadVars, catalogVars, auditVars,
                   listed, target>>

NextCatalog == EvaluateEntry \/ AssignCatalog

SpecCatalog == InitCatalog /\ [][NextCatalog]_vars

-----------------------------------------------------------------------------
(* NewQuery4Audit (rules.go:44-68).  The two parsers are libraries outside *)
(* the package; each either returns a syntax tree of the text or returns   *)
(* no tree and an error.                                                   *)

\* the texts NewQuery4Audit is called with
AuditQueries ==
    {"", "select 1", "select * from tbl where id=1", "select next 2 values from seq",
     "delete from tbl", "update tbl set a=1", "insert into tbl values (1)",
     "create table t (a int)", "drop table t", "alter table t add column b int",
     "show tables", "select", "selec 1", "use test"}

\* the variadic options: none, the charset, or the charset and the collation
AuditOptions == {<<>>, <<"utf8">>, <<"utf8", "utf8_general_ci">>}

\* what sqlparser.Parse(sql) can return: the tree of the text, or an error
VitessOutcomes(sqlText) ==
    {[stmt |-> [nil |-> FALSE, engine |-> "vitess", text |-> sqlText], err |-> "nil"],
     [stmt |-> NilPointer, err |-> "vitess: syntax error"]}

\* what ast.TiParse(sql, charset, collation) can return
TiDBOutcomes(sqlText, charset, collation) ==
    {[stmt |-> [nil |-> FALSE, engine |-> "tidb", text |-> sqlText,
                charset |-> charset, collation |-> collation], err |-> "nil"],
     [stmt |-> NilPointer, err |-> "tidb: syntax error"]}

\* options[0] if present (lines 49-51)
Charset(options) == IF Len(options) > 0 THEN options[1] ELSE ""

\* options[1] if present (lines 53-55)
Collation(options) == IF Len(options) > 1 THEN options[2] ELSE ""

\* func NewQuery4Audit, given what the two parsers returned: the error of the
\* Vitess parser is logged only (lines 59-62), the error of the TiDB parser is
\* the error returned with the subject (lines 66-67)
NewQuery4Audit(sqlText, vitess, tidb) ==
    [q |-> [nil |-> FALSE, Query |-> sqlText, Stmt |-> vitess.stmt, TiStmt |-> tidb.stmt],
     err |-> tidb.err]

InitAudit ==
    /\ HeuristicRules = HeuristicRulesLiteral
    /\ IgnoreRules = <<>>
    /\ ReportType = "markdown"
    /\ ExplainSQLReportType = "pretty"
    /\ pc = "idle"
    /\ sql = ""
    /\ format = ""
    /\ suggests = <<>>
    /\ NoCall
    /\ argItem = ""
    /\ ignored = FALSE
    /\ NoBlackList
    /\ NoReload
    /\ NoAudit

\* one call of NewQuery4Audit
NewQuery4AuditCall ==
    /\ \E sqlText \in AuditQueries, options \in AuditOptions :
         \E vitess \in VitessOutcomes(sqlText),
            tidb \in TiDBOutcomes(sqlText, Charset(options), Collation(options)) :
              LET res == NewQuery4Audit(sqlText, vitess, tidb)
              IN  /\ sql' = sqlText
                  /\ audit' = res.q
                  /\ auditErr' = res.err
    /\ pc' = "done"
    /\ UNCHANGED <<HeuristicRules, IgnoreRules, ReportType, ExplainSQLReportType,
                   format, suggests, suggest, normalized, buf, score, sug, str, order,
                   stdout, argItem, ignored, blackVars, reloadVars, catalogVars,
                   listed, target>>

NextAudit == NewQuery4AuditCall

SpecAudit == InitAudit /\ [][NextAudit]_vars

-----------------------------------------------------------------------------
(* FormatSuggest statement by statement (rules.go:1276-1495), called with  *)
(* several maps.  pc names the statement that runs next; target is the     *)
(* index of the input map whose storage the local map suggest shares, 0    *)
(* for storage of its own, so that a write to the local map that reaches   *)
(* an input map shows in suggests.                                         *)

\* the largest number of maps one call passes
MaxMaps == 2

\* COL.001 as a second check reports it, at a position of the query
PositionedSelectStar == [HeuristicRulesLiteral["COL.001"] EXCEPT !.Position = 7]

\* the maps the callers pass
PipelineMaps ==
    { EmptyMap,
      [k \in {"OK"} |-> HeuristicRulesLiteral[k]],
      [k \in {"COL.001"} |-> HeuristicRulesLiteral[k]],
      [k \in {"COL.001"} |-> PositionedSelectStar],
      [k \in {"KEY.002", "COL.001"} |-> HeuristicRulesLiteral[k]],
      [k \in {"KEY.007"} |-> HeuristicRulesLiteral[k]],
      [k \in {"ERR.001"} |-> Rule("ERR.001", "L8", "MySQL execute failed", "syntax error", "", "")] }

\* the variadic argument: at most MaxMaps maps
PipelineInputs == UNION {[1..n -> PipelineMaps] : n \in 0..MaxMaps}

\* the ignore lists the statements are run under
PipelineIgnoreLists ==
    {<<>>, <<"OK">>, <<"OK*">>, <<"O">>, <<"COL*">>, <<"KEY.007">>}

PipelineFormats == {"json", "markdown", "text"}

\* the local map shares the storage of the first input map
AliasFirstInput(ms) ==
    IF Len(ms) > 0 THEN [target |-> 1, map |-> ms[1]] ELSE [target |-> 0, map |-> EmptyMap]

\* suggest := make(map[string]Rule) (line 1277): an empty map of its own
MakeSuggest(ms) == [target |-> 0, map |-> EmptyMap]

\* the statements with the ignore gate run before the conflict resolution
AfterGateFirst ==
    [union |-> "gate", gate |-> "conflict", conflict |-> "synthesis",
     synthesis |-> "removal", removal |-> "render", render |-> "done"]

\* the statements of FormatSuggest from the union to the return, each with
\* the statement that runs after it
After ==
    [union |-> "conflict", conflict |-> "synthesis", synthesis |-> "removal",
     removal |-> "gate", gate |-> "render", render |-> "done"]

\* the variables no statement of FormatSuggest writes
pipelineFrame ==
    <<HeuristicRules, IgnoreRules, ReportType, ExplainSQLReportType, stdout, argItem,
      ignored, blackVars, reloadVars, catalogVars, auditVars, listed>>

\* a write of the map m to the local map, seen through every map that shares
\* its storage
Store(m) ==
    /\ suggest' = m
    /\ suggests' = IF target = 0 THEN suggests ELSE [suggests EXCEPT ![target] = m]

InitPipeline ==
    /\ HeuristicRules = HeuristicRulesLiteral
    /\ IgnoreRules \in PipelineIgnoreLists
    /\ ReportType = "json"
    /\ ExplainSQLReportType = "pretty"
    /\ pc = "idle"
    /\ sql = ""
    /\ format = ""
    /\ suggests = <<>>
    /\ NoCall
    /\ argItem = ""
    /\ ignored = FALSE
    /\ NoBlackList
    /\ NoReload
    /\ NoAudit

\* the call, up to line 1277: the arguments are bound and the local map is made
PipelineCall ==
    /\ pc = "idle"
    /\ \E q \in Queries, f \in PipelineFormats, ms \in PipelineInputs :
         /\ sql' = q
         /\ format' = f
         /\ suggests' = ms
         /\ suggest' = MakeSuggest(ms).map
         /\ target' = MakeSuggest(ms).target
    /\ pc' = "union"
    /\ UNCHANGED <<normalized, buf, score, sug, str, order, pipelineFrame>>

\* lines 1278-1282: every entry of every input map is stored in the local map
UnionStep ==
    /\ pc = "union"
    /\ Store(Merge(suggests))
    /\ pc' = After.union
    /\ UNCHANGED <<sql, format, target, normalized, buf, score, sug, str, order,
                   pipelineFrame>>

\* line 1284
ConflictStep ==
    /\ pc = "conflict"
    /\ Store(MergeConflictHeuristicRules(suggest))
    /\ pc' = After.conflict
    /\ UNCHANGED <<sql, format, target, normalized, buf, score, sug, str, order,
                   pipelineFrame>>

\* lines 1294-1296: an empty local map is replaced by a new map holding OK
SynthesisStep ==
    /\ pc = "synthesis"
    /\ IF Cardinality(DOMAIN suggest) < 1
       THEN /\ suggest' = EnsureNotEmpty(suggest)
            /\ target' = 0
            /\ UNCHANGED suggests
       ELSE UNCHANGED <<suggest, target, suggests>>
    /\ pc' = After.synthesis
    /\ UNCHANGED <<sql, format, normalized, buf, score, sug, str, order, pipelineFrame>>

\* lines 1297-1299
RemovalStep ==
    /\ pc = "removal"
    /\ Store(RemoveOK(suggest))
    /\ pc' = After.removal
    /\ UNCHANGED <<sql, format, target, normalized, buf, score, sug, str, order,
                   pipelineFrame>>

\* lines 1300-1304
GateStep ==
    /\ pc = "gate"
    /\ Store(ApplyIgnore(suggest))
    /\ pc' = After.gate
    /\ UNCHANGED <<sql, format, target, normalized, buf, score, sug, str, order,
                   pipelineFrame>>

\* lines 1305-1495: the switch on format, the score line and the return
RenderStep ==
    /\ pc = "render"
    /\ \E o \in VisitOrders(format, suggest) :
         LET res == Render(sql, CurrentDB, format, suggest, o)
         IN  /\ normalized' = suggest
             /\ order' = o
             /\ Store(res.suggest)
             /\ buf' = res.buf
             /\ score' = res.score
             /\ sug' = IF format = "json"
                       THEN JSONSuggest(sql, CurrentDB, suggest, o)
                       ELSE ZeroJSONSuggest
             /\ str' = Assemble(res.buf, res.score)
    /\ pc' = After.render
    /\ UNCHANGED <<sql, format, target, pipelineFrame>>

NextPipeline ==
    \/ PipelineCall
    \/ UnionStep
    \/ ConflictStep
    \/ SynthesisStep
    \/ RemovalStep
    \/ GateStep
    \/ RenderStep

SpecPipeline == InitPipeline /\ [][NextPipeline]_vars

-----------------------------------------------------------------------------
(* FormatSuggest with a structured format, called with verdicts of every   *)
(* layer: two verdicts that are rendered in each of the namespaces ERR,    *)
(* EXP, PRO, TRA and IDX, the explain summary EXP.000, an ERR verdict      *)
(* without Content, two heuristic verdicts and OK.                         *)

\* the largest number of verdicts of one such call
MaxShown == 3

\* the verdicts of the callers: those of Verdicts in these namespaces and a
\* second one in each namespace
StructuredVerdicts ==
    {v \in Verdicts : v.Item \in {"OK", "ARG.005", "COL.001", "ERR.000", "ERR.001",
                                  "EXP.000", "EXP.001", "PRO.001", "TRA.001", "IDX.003"}}
    \cup
    { Rule("ERR.002", "L8", "MySQL execute failed", "table tbl does not exist", "", ""),
      Rule("EXP.002", "L2", "Using filesort", "Extra: Using filesort", "", ""),
      Rule("PRO.002", "L1", "Profiling", "| Sending data | 0.000012 |", "", ""),
      Rule("TRA.002", "L1", "Trace", "| join_optimization |", "", ""),
      Rule("IDX.004", "L2", "Add a suitable index for id of table t2",
           "Add a suitable index for id of table t2", "ALTER TABLE t2 add index idx_id (id)", "") }

\* every map from Item to one of these verdicts with at most n entries
StructuredMaps(n) ==
    {[k \in {v.Item : v \in S} |-> CHOOSE v \in S : v.Item = k] :
        S \in {T \in SUBSET StructuredVerdicts : Cardinality(T) <= n}}

InitStructured ==
    /\ HeuristicRules = HeuristicRulesLiteral
    /\ IgnoreRules = <<>>
    /\ ReportType \in ReportTypes
    /\ ExplainSQLReportType = "pretty"
    /\ pc = "idle"
    /\ sql = ""
    /\ format = ""
    /\ suggests = <<>>
    /\ NoCall
    /\ argItem = ""
    /\ ignored = FALSE
    /\ NoBlackList
    /\ NoReload
    /\ NoAudit

\* func FormatSuggest called with a structured format and one map of these
\* verdicts
FormatSuggestStructured ==
    /\ pc = "idle"
    /\ \E q \in Queries, f \in StructuredFormats, s \in StructuredMaps(MaxShown) :
         LET m == Normalize(<<s>>)
             o == SortStrings(DOMAIN m)
             res == Render(q, CurrentDB, f, m, o)
         IN  /\ sql' = q
             /\ format' = f
             /\ suggests' = <<s>>
             /\ normalized' = m
             /\ order' = o
             /\ suggest' = res.suggest
             /\ buf' = res.buf
             /\ score' = res.score
             /\ sug' = ZeroJSONSuggest
             /\ str' = Assemble(res.buf, res.score)
    /\ pc' = "done"
    /\ UNCHANGED <<HeuristicRules, IgnoreRules, ReportType, ExplainSQLReportType,
                   stdout, argItem, ignored, blackVars, reloadVars, catalogVars,
                   auditVars, listed, target>>

NextStructured == FormatSuggestStructured

SpecStructured == InitStructured /\ [][NextStructured]_vars

-----------------------------------------------------------------------------
(* Vocabulary of the properties.                                           *)

Done == pc = "done"

IsStructured == format \in StructuredFormats

\* the score of the structured path reaches the score line (line 1489)
ScoreLineShown == ReportType \in {"markdown", "html"} /\ Len(buf) > 1

ErrWithContent(m) == {k \in DOMAIN m : HasPrefix(k, "ERR") /\ m[k].Content # ""}

ErrWithoutContent(m) == {k \in DOMAIN m : HasPrefix(k, "ERR") /\ m[k].Content = ""}

\* a severity of the form L<n>, n a sequence of decimal digits
WellFormed(severity) ==
    /\ Len(severity) >= 2
    /\ Char(severity, 1) = "L"
    /\ AllDigits(SubSeq(severity, 2, Len(severity)))

\* the ordinal n of a well-formed severity L<n>
Ordinal(severity) == DigitsVal(SubSeq(severity, 2, Len(severity)))

\* the sum of the ordinals of the verdicts of m under the keys ks
RECURSIVE SumOrdinals(_, _)
SumOrdinals(m, ks) ==
    IF ks = {} THEN 0
    ELSE LET k == CHOOSE x \in ks : TRUE
         IN  Ordinal(m[k].Severity) + SumOrdinals(m, ks \ {k})

\* max(0, 100 - 5 * sum of the ordinals of every verdict of m)
ExpectedScore(m) ==
    LET s == 100 - 5 * SumOrdinals(m, DOMAIN m)
    IN  IF s < 0 THEN 0 ELSE s

\* a severity that cannot be parsed as L<integer>
Malformed(severity) ==
    \/ Len(severity) < 2
    \/ Char(severity, 1) # "L"
    \/ Atoi(SubSeq(severity, 2, Len(severity))).err

\* the map m with every malformed severity replaced by the weakest one, L0
WithOrdinalZero(m) ==
    [k \in DOMAIN m |->
       IF Malformed(m[k].Severity) THEN [m[k] EXCEPT !.Severity = "L0"] ELSE m[k]]

\* the sequence s without the elements of the set ks
Without(s, ks) == SelectSeq(s, LAMBDA x : x \notin ks)

\* the section titles of a structured document: the elements of buf that open
\* a section (the query header opens with a single #)
Sections(b) == SelectSeq(b, LAMBDA x : HasPrefix(x, "##"))

\* the rules of the three arrays of the JSON document
JSONEntries == Range(sug.Explain) \cup Range(sug.HeuristicRules) \cup Range(sug.IndexRules)

-----------------------------------------------------------------------------
(* C1 .. C10.                                                              *)

\* C1: in a structured format the score handed to the score line lies in 0..100.
C1_StructuredScoreBounds ==
    (Done /\ IsStructured /\ ScoreLineShown) => (0 <= score /\ score <= 100)

\* C2: the Score field formatJSON produces lies in 0..100, whatever the severity
\* strings and the iteration order.
C2_JSONScoreBounds ==
    (Done /\ format = "json") => (0 <= sug.Score /\ sug.Score <= 100)

\* C3: an ERR verdict with non-empty Content forces the score to exactly 0 in the
\* JSON path and in the structured path, and the structured document's first
\* section is the parse-failure section.
C3_ErrForcesZero ==
    (Done /\ ErrWithContent(normalized) # {}) =>
        /\ format = "json" => sug.Score = 0
        /\ IsStructured =>
             /\ score = 0
             /\ Sections(buf)[1] = "## MySQL execute failed\n"

\* The part of C3 that the code keeps: with an ERR verdict that has Content the
\* first section of the structured document is the parse-failure section.
ErrSectionFirst ==
    (Done /\ IsStructured /\ ErrWithContent(normalized) # {}) =>
        /\ Sections(buf)[1] = "## MySQL execute failed\n"
        /\ buf[Len(HeaderBuf(sql, format, normalized)) + 1] = "## MySQL execute failed\n"

\* C4: without ERR entries and with well-formed severities the score is
\* max(0, 100 - 5 * sum of ordinals) over every verdict, the same in the
\* structured path and in the JSON path.
C4_ScoreFormula ==
    (/\ Done
     /\ \A k \in DOMAIN normalized :
          ~HasPrefix(k, "ERR") /\ WellFormed(normalized[k].Severity)) =>
        /\ format = "json" => sug.Score = ExpectedScore(normalized)
        /\ IsStructured => score = ExpectedScore(normalized)

\* C5: an ERR verdict with empty Content is rendered nowhere and its presence
\* does not change the score, in the structured path and in the JSON path.
C5_EmptyErrDropped ==
    Done =>
        LET dropped == ErrWithoutContent(normalized)
            rest == DeleteAll(normalized, dropped)
        IN  /\ IsStructured =>
                 /\ buf = Structured(sql, format, rest).buf
                          \/ (rest = EmptyMap /\ buf = HeaderBuf(sql, format, normalized))
                 /\ score = Structured(sql, format, rest).score
            /\ format = "json" =>
                 /\ \A k \in dropped : normalized[k] \notin JSONEntries
                 /\ sug.Score = JSONScore(rest, Without(order, dropped))

\* C6: a severity that is no L<integer> counts as ordinal 0 in every scoring
\* path: the score is the one the set has with that severity replaced by L0.
C6_MalformedSeverityIsZero ==
    (Done /\ \E k \in DOMAIN normalized : Malformed(normalized[k].Severity)) =>
        /\ IsStructured => score = Structured(sql, format, WithOrdinalZero(normalized)).score
        /\ format = "json" => sug.Score = JSONScore(WithOrdinalZero(normalized), order)

\* C7: with no verdicts at all, OK display not disabled and no ignore pattern
\* matching OK, the normalized set is {OK} as the catalog yields it, the
\* structured document of a non-empty query has exactly one section, titled
\* with that entry's Summary, and the score is 100.
C7_EmptySetBecomesOK ==
    (Done /\ DOMAIN Merge(suggests) = {} /\ ~IgnoreOK /\ ~IsIgnoreRule("OK")) =>
        /\ normalized = [k \in {"OK"} |-> Lookup(HeuristicRules, "OK")]
        /\ (IsStructured /\ sql # "") =>
             /\ Sections(buf) = << "## " \o Lookup(HeuristicRules, "OK").Summary \o "\n" >>
             /\ Len(buf) = Len(HeaderBuf(sql, format, normalized)) + 1
             /\ score = 100
        /\ format = "json" => sug.Score = 100

C7_Witness ==
    /\ Done
    /\ suggests = <<>>
    /\ IgnoreRules = <<>>
    /\ format = "markdown"
    /\ sql # ""
    /\ DOMAIN suggest = {"OK"}
    /\ Sections(buf) = << "## OK\n" >>
    /\ score = 100

\* C8: when the merged, conflict-resolved set holds more than one verdict, the
\* returned set and the rendered output of every format are free of OK.
C8_NoOKAmongSeveral ==
    (Done /\ Cardinality(DOMAIN MergeConflictHeuristicRules(Merge(suggests))) > 1) =>
        /\ "OK" \notin DOMAIN suggest
        /\ "OK" \notin DOMAIN normalized
        /\ \A r \in JSONEntries : r.Item # "OK"
        /\ \A i \in DOMAIN buf :
             /\ buf[i] # "Item:  OK\n"
             /\ buf[i] # "## OK\n"
             /\ buf[i] # PrettySprint(HeuristicRulesLiteral["OK"])

C8_Witness ==
    /\ Done
    /\ "OK" \in DOMAIN Merge(suggests)
    /\ Cardinality(DOMAIN MergeConflictHeuristicRules(Merge(suggests))) > 1
    /\ DOMAIN suggest # {}
    /\ "OK" \notin DOMAIN suggest

ColItems ==
    {"COL.00" \o Char(Digits, d + 1) : d \in 1..9}
    \cup {"COL.01" \o Char(Digits, d + 1) : d \in 0..9}

\* C9 as stated: with the ignore list ["COL"] or ["COL*"] IsIgnoreRule is true
\* for COL.001 .. COL.019 and false for COLX.001.
C9_Original ==
    (Done /\ IgnoreRules \in {<<"COL">>, <<"COL*">>}) =>
        /\ argItem \in ColItems => ignored
        /\ argItem = "COLX.001" => ~ignored

\* C9 as amended: with the ignore list ["COL"] or ["COL*"] IsIgnoreRule is true
\* for COL.001 .. COL.019 and, the test being a plain prefix test, also for
\* COLX.001; it is false for an item that does not begin with COL.
C9_PrefixMatch ==
    (Done /\ IgnoreRules \in {<<"COL">>, <<"COL*">>}) =>
        /\ argItem \in ColItems => ignored
        /\ argItem = "COLX.001" => ignored
        /\ ~HasPrefix(argItem, "COL") => ~ignored

C9_Witness ==
    /\ Done
    /\ IgnoreRules = <<"COL*">>
    /\ argItem = "COLX.001"
    /\ ignored

\* C10: IsIgnoreRule("OK") is false under every ignore list.
C10_OKNeverIgnored ==
    (Done /\ argItem = "OK") => ~ignored

-----------------------------------------------------------------------------
(* C11 .. C20.                                                             *)

\* the entry e compiles as a regular expression under the flag i
Compiles(e) == ~Compile("(?i)" \o e).err

\* Regexp.MatchString: the entry e, a valid expression, matches somewhere in s
\* without regard to case
MatchString(e, s) == Starts(Compile("(?i)" \o e), s) # {}

\* C11: InBlackList(sql) is true exactly when some entry of the block list
\* equals sql or compiles as a regular expression that matches sql case-
\* insensitively; it is false for an empty list, and a text equal to an entry
\* is blocked whatever the other entries are.
C11_BlockedIffLiteralOrMatch ==
    Done =>
        in = \E i \in DOMAIN BlackList :
                \/ sql = BlackList[i]
                \/ Compiles(BlackList[i]) /\ MatchString(BlackList[i], sql)

\* The part of C11 that the code keeps: a text equal to an entry is blocked,
\* an empty list blocks nothing, and every blocked text equals an entry or is
\* matched by one.
LiteralAlwaysBlocked ==
    Done =>
        /\ (\E i \in DOMAIN BlackList : sql = BlackList[i]) => in
        /\ BlackList = <<>> => ~in
        /\ in => \E i \in DOMAIN BlackList :
                    \/ sql = BlackList[i]
                    \/ Compiles(BlackList[i]) /\ MatchString(BlackList[i], sql)

\* C12: an entry that does not compile never matches by pattern and does not
\* end the evaluation: the result is the one of the list without the malformed
\* entries, or true if the text equals one of them.
C12_MalformedEntrySkipped ==
    (Done /\ \E i \in DOMAIN BlackList : ~Compiles(BlackList[i])) =>
        in = \/ \E i \in DOMAIN BlackList : ~Compiles(BlackList[i]) /\ sql = BlackList[i]
             \/ InBlackListLoop(SelectSeq(BlackList, Compiles), sql, 1)

C12_Witness ==
    /\ Done
    /\ BlackList = <<"select (", "DELETE">>
    /\ sql = "delete from tbl"
    /\ in

\* the string FormatSuggest returns when its range loops visit the map in the
\* order o, everything else as in the call that was made
Returned(o) ==
    LET res == Render(sql, CurrentDB, format, normalized, o)
    IN  Assemble(res.buf, res.score)

\* C13: for a fixed query, configuration and verdict set the output of
\* FormatSuggest is the same whatever order the verdict map is iterated in, for
\* every format selector.
C13_OrderIndependent ==
    Done => \A o \in Orders(DOMAIN normalized) : Returned(o) = str

\* the positions of the line x in the document b
Positions(b, x) == {i \in DOMAIN b : b[i] = x}

\* the verdicts of the map m that the structured document shows
Shown(m) == DOMAIN m \ ErrWithoutContent(m)

\* the bucket of the verdict k: ERR, the EXP.000 header, EXP, PRO, TRA, IDX,
\* heuristic
Bucket(k) ==
    CASE HasPrefix(k, "ERR") -> 1
      [] k = "EXP.000" -> 2
      [] HasPrefix(k, "EXP") -> 3
      [] HasPrefix(k, "PRO") -> 4
      [] HasPrefix(k, "TRA") -> 5
      [] HasPrefix(k, "IDX") -> 6
      [] OTHER -> 7

\* the line of the structured document that the verdict k of m alone produces
Marker(m, k) ==
    CASE Bucket(k) \in {1, 4, 5} -> m[k].Content \o "\n"
      [] Bucket(k) = 2 -> "##  " \o m[k].Summary \o "\n"
      [] Bucket(k) = 3 -> "###  " \o m[k].Summary \o "\n"
      [] k = "OK" -> "## " \o m[k].Summary \o "\n"
      [] OTHER -> "* **Item:**  " \o k \o "\n"

\* the verdict j comes before the verdict k: an earlier bucket, or the same
\* bucket and a smaller Item
Before(j, k) == Bucket(j) < Bucket(k) \/ (Bucket(j) = Bucket(k) /\ StrLess(j, k))

\* the title that opens the bucket b when it holds a verdict
Title(b) ==
    CASE b = 1 -> << "## MySQL execute failed\n" >>
      [] b = 4 -> << "## Profiling info\n" >>
      [] b = 5 -> << "## Trace info\n" >>
      [] OTHER -> <<>>

\* the lines of the verdict k of m, rendered in its bucket
Block(f, m, k) ==
    CASE Bucket(k) \in {1, 4, 5} -> << m[k].Content \o "\n" >>
      [] Bucket(k) = 2 -> ExplainLines("##", m[k])
      [] Bucket(k) = 3 -> ExplainLines("###", m[k])
      [] Bucket(k) = 6 -> IdxLines(f, m, k)
      [] OTHER -> HeuristicLines(m, k)

\* the bucket b of the document: its title and then the block of each shown
\* verdict of the bucket, in ascending order of Item
Section(f, m, b) ==
    LET ks == SortStrings({k \in Shown(m) : Bucket(k) = b})
    IN  (IF Len(ks) > 0 THEN Title(b) ELSE <<>>)
        \o Concat([i \in 1..Len(ks) |-> Block(f, m, ks[i])])

\* the document that holds, after the query header, the seven buckets in
\* their order, and so every shown verdict once, in its own bucket, and
\* nothing else
BucketedDocument(q, f, m) ==
    HeaderBuf(q, f, m) \o Concat([b \in 1..7 |-> Section(f, m, b)])

\* C14: in the structured document every verdict of the normalized set other
\* than an ERR verdict without Content is rendered in exactly one bucket, the
\* buckets come in the order ERR, EXP.000, EXP, PRO, TRA, IDX, heuristic with
\* EXP.000 a header of its own that is not repeated among the EXP verdicts,
\* and inside a bucket the verdicts are in ascending order of Item; an ERR
\* verdict without Content is not rendered.  The document is, line for line,
\* the bucketed document of the normalized set, so no verdict has a second
\* rendering in another bucket.
C14_BucketsInOrder ==
    (Done /\ IsStructured) =>
        /\ buf = BucketedDocument(sql, format, normalized)
        /\ \A k \in Shown(normalized) :
             Cardinality(Positions(buf, Marker(normalized, k))) = 1
        /\ \A j, k \in Shown(normalized) :
             Before(j, k) =>
                \A p \in Positions(buf, Marker(normalized, j)),
                   q \in Positions(buf, Marker(normalized, k)) : p < q
        /\ \A k \in ErrWithoutContent(normalized) :
             /\ Positions(buf, "* **Item:**  " \o k \o "\n") = {}
             /\ Positions(buf, "## " \o normalized[k].Summary \o "\n") = {}
        /\ \A k \in DOMAIN normalized :
             (HasPrefix(k, "ERR") \/ HasPrefix(k, "EXP") \/ HasPrefix(k, "PRO")
                 \/ HasPrefix(k, "TRA")) =>
                Positions(buf, "* **Item:**  " \o k \o "\n") = {}
        /\ "EXP.000" \in DOMAIN normalized =>
             Positions(buf, "###  " \o normalized["EXP.000"].Summary \o "\n") = {}
        /\ ErrWithContent(normalized) = {} =>
             Positions(buf, "## MySQL execute failed\n") = {}

\* a document with two buckets of two verdicts each side by side: the explain
\* summary, then the two other EXP verdicts in ascending order
C14_Witness ==
    /\ Done
    /\ format = "markdown"
    /\ sql # ""
    /\ DOMAIN normalized = {"EXP.002", "EXP.000", "EXP.001"}
    /\ Positions(buf, "##  " \o normalized["EXP.000"].Summary \o "\n") = {3}
    /\ Positions(buf, "###  " \o normalized["EXP.001"].Summary \o "\n") = {6}
    /\ Positions(buf, "###  " \o normalized["EXP.002"].Summary \o "\n") = {9}
    /\ Len(buf) = 11

\* the array a holds exactly the verdicts of m under the keys ks, each once,
\* in ascending order of Item
HoldsSorted(a, m, ks) ==
    /\ Len(a) = Cardinality(ks)
    /\ Range(a) = {m[k] : k \in ks}
    /\ \A i, j \in DOMAIN a : i < j => StrLess(a[i].Item, a[j].Item)

\* C15: in the JSON document Explain holds exactly the EXP verdicts,
\* IndexRules exactly the IDX verdicts and HeuristicRules all the others but
\* the ERR verdicts without Content, each array in ascending order of Item; for
\* {IDX.003, COL.001} IndexRules and HeuristicRules have one entry each.
C15_JSONArrays ==
    (Done /\ format = "json") =>
        LET exp == {k \in DOMAIN normalized : HasPrefix(k, "EXP")}
            idx == {k \in DOMAIN normalized : HasPrefix(k, "IDX")}
            heu == (DOMAIN normalized \ (exp \cup idx)) \ ErrWithoutContent(normalized)
        IN  /\ HoldsSorted(sug.Explain, normalized, exp)
            /\ HoldsSorted(sug.IndexRules, normalized, idx)
            /\ HoldsSorted(sug.HeuristicRules, normalized, heu)
            /\ DOMAIN normalized = {"IDX.003", "COL.001"} =>
                 /\ Len(sug.IndexRules) = 1 /\ sug.IndexRules[1].Item = "IDX.003"
                 /\ Len(sug.HeuristicRules) = 1 /\ sug.HeuristicRules[1].Item = "COL.001"

C15_Witness ==
    /\ Done
    /\ format = "json"
    /\ DOMAIN normalized = {"PRO.001", "ERR.001"}
    /\ Len(sug.HeuristicRules) = 2
    /\ sug.HeuristicRules[1].Item = "ERR.001"
    /\ order = <<"PRO.001", "ERR.001">>

\* the verdicts of m that the lint format reports
Linted(m) == {k \in DOMAIN m : k # "OK" /\ ~HasPrefix(k, "EXP")}

\* C16: with format lint the output of FormatSuggest holds exactly one entry,
\* Item followed by Summary, for each verdict of the normalized set that is
\* neither OK nor EXP, and no other entry.
C16_LintEntries ==
    (Done /\ format = "lint") =>
        /\ \A k \in Linted(normalized) :
             Cardinality(Positions(buf, k \o " " \o normalized[k].Summary)) = 1
        /\ Len(buf) = Cardinality(Linted(normalized))
        /\ str = Join(buf, "\n")

\* What the code does: the lint case appends exactly these entries, and the
\* score switch (1486-1493) returns their join under a report type other than
\* markdown and html; under these two it returns nothing for fewer than two
\* entries and puts the score line after the first entry otherwise.
LintEntriesAppended ==
    (Done /\ format = "lint") =>
        /\ \A k \in Linted(normalized) :
             Cardinality(Positions(buf, k \o " " \o normalized[k].Summary)) = 1
        /\ Len(buf) = Cardinality(Linted(normalized))
        /\ str = IF ReportType \notin {"markdown", "html"} THEN Join(buf, "\n")
                 ELSE IF Len(buf) <= 1 THEN ""
                 ELSE buf[1] \o "\n" \o Score(score) \o "\n\n" \o Join(Tail(buf), "\n")

\* the format selectors FormatSuggest has a case for
Recognized == {"json", "text", "lint"} \cup StructuredFormats

\* C17: with a format selector that is not recognized the output holds, for
\* every verdict, the record of the text format with the fields Query, ID,
\* Item, Severity, Summary and Content, followed by the raw dumps.
C17_FallbackIsText ==
    (Done /\ format \notin Recognized) =>
        buf = TextBuf(sql, normalized, order)
              \o [i \in 1..Len(order) |-> PrettySprint(normalized[order[i]])]

\* What the code does with a selector that is not recognized: one Query line,
\* then the raw dump of every verdict.
FallbackIsDump ==
    (Done /\ format \notin Recognized) =>
        /\ Len(buf) = 1 + Cardinality(DOMAIN normalized)
        /\ buf[1] = "Query:  " \o sql \o "\n"
        /\ \A k \in DOMAIN normalized :
             /\ Cardinality(Positions(buf, PrettySprint(normalized[k]))) = 1
             /\ Positions(buf, "Item:  " \o k \o "\n") = {}

\* C18: the set FormatSuggest returns has the same Items for every format
\* selector: rendering removes no verdict from what the caller gets back.
C18_ReturnedSetSameForAllFormats ==
    Done =>
        /\ DOMAIN suggest = DOMAIN normalized
        /\ \A f \in Formats :
             DOMAIN Render(sql, CurrentDB, f, normalized, order).suggest = DOMAIN suggest

\* C19: after InitHeuristicRules no call adds, removes or changes an entry of
\* the catalog.
C19_CatalogReadOnly == HeuristicRules = HeuristicRulesLiteral

\* C20: InitHeuristicRules run again is idempotent and atomic: when no reload
\* runs the catalog has the entries of the literal as after the first load, and
\* a reader concurrent with a reload finds the complete old catalog or the
\* complete new one, never a part of it.
C20_ReloadAtomic ==
    /\ (tmp = 0 /\ Len(objs) > 1) => HeuristicRules = HeuristicRulesLiteral
    /\ \A i \in DOMAIN observed : observed[i] \in {objs[1], HeuristicRulesLiteral}

\* The part of C20 that the code keeps: a reload leaves the entries of the
\* literal, the map is complete before the variable takes its address, and no
\* map that was published is changed.
ReloadSwapsBuiltMap ==
    /\ objs # <<>> =>
         /\ HeuristicRules = objs[ptr]
         /\ objs[1] \in LoadedCatalogs
         /\ \A a \in DOMAIN objs : (a > 1 /\ a # tmp) => objs[a] = HeuristicRulesLiteral
         /\ ptr # tmp
    /\ (tmp = 0 /\ Len(objs) > 1) => HeuristicRules = HeuristicRulesLiteral

-----------------------------------------------------------------------------
(* C21 .. C30.                                                             *)

\* a severity of the form L<n> with one decimal digit n
SeverityLevel(severity) ==
    Len(severity) = 2 /\ Char(severity, 1) = "L" /\ IsDigit(Char(severity, 2))

\* C21: in the catalog InitHeuristicRules builds every key equals the Item of
\* its entry, no two entries share an Item, every entry has a check function,
\* every Severity is L<n> with 0 <= n <= 9, and the entry OK exists with
\* Severity L0.
C21_CatalogWellFormed ==
    /\ \A k \in DOMAIN evaluated :
         /\ evaluated[k].Item = k
         /\ evaluated[k].Func # ""
         /\ SeverityLevel(evaluated[k].Severity)
    /\ Cardinality(DOMAIN evaluated) = inserted
    /\ \A j, k \in DOMAIN evaluated : evaluated[j].Item = evaluated[k].Item => j = k
    /\ inserted >= 1 => ("OK" \in DOMAIN evaluated /\ evaluated["OK"].Severity = "L0")
    /\ pc = "done" =>
         /\ inserted = Len(CatalogLiteral)
         /\ \A k \in DOMAIN HeuristicRules :
              /\ k \in DOMAIN evaluated
              /\ HeuristicRules[k].Item = evaluated[k].Item
              /\ HeuristicRules[k].Severity = evaluated[k].Severity
              /\ HeuristicRules[k].Func = evaluated[k].Func

C21_Witness ==
    /\ pc = "done"
    /\ Cardinality(DOMAIN evaluated) = Len(CatalogLiteral)
    /\ evaluated["OK"].Severity = "L0"
    /\ evaluated["TBL.008"].Func = "RuleTableCharsetCheck"


\* C22: ListHeuristicRules renders every rule of the catalog it is given but
\* OK, each once, in ascending order of Item, for every report type.
C22_ListingWithoutOK ==
    stdout # "" => listed = SortStrings(DOMAIN HeuristicRulesLiteral \ {"OK"})

\* What the two branches of ListHeuristicRules render: the json branch every
\* rule of the map in ascending order of key, OK among them; the other branch
\* every rule but OK in ascending order of key.
ListingByBranch ==
    stdout # "" =>
        IF ReportType = "json"
        THEN /\ listed = SortStrings(DOMAIN HeuristicRulesLiteral)
             /\ stdout = MarshalMap(HeuristicRulesLiteral)
        ELSE listed = SortStrings(DOMAIN HeuristicRulesLiteral \ {"OK"})


\* C23: NewQuery4Audit always returns a non-nil subject holding the raw text,
\* and it reports an error only when neither engine parsed the query.
C23_ErrorOnlyWhenNoEngineParsed ==
    Done =>
        /\ ~audit.nil
        /\ audit.Query = sql
        /\ auditErr # "nil" => (audit.Stmt.nil /\ audit.TiStmt.nil)

\* what the code returns: the subject with the raw text and both trees, and
\* the error of the TiDB parser, whatever the Vitess parser returned
ErrorIsTiDBError ==
    Done =>
        /\ ~audit.nil
        /\ audit.Query = sql
        /\ (auditErr # "nil") <=> audit.TiStmt.nil


\* one statement of FormatSuggest runs, in the order of the source, on the
\* map the statement before it left
StepsInOrder ==
    /\ pc = "union" => (pc' = "conflict" /\ suggest' = Merge(suggests))
    /\ pc = "conflict" =>
           (pc' = "synthesis" /\ suggest' = MergeConflictHeuristicRules(suggest))
    /\ pc = "synthesis" => (pc' = "removal" /\ suggest' = EnsureNotEmpty(suggest))
    /\ pc = "removal" => (pc' = "gate" /\ suggest' = RemoveOK(suggest))
    /\ pc = "gate" => (pc' = "render" /\ suggest' = ApplyIgnore(suggest))
    /\ pc = "render" => (pc' = "done" /\ normalized' = suggest)
    /\ pc' = "gate" => pc = "removal"
    /\ pc' = "conflict" => pc = "union"

\* C24: every call of FormatSuggest runs the union, the conflict resolution,
\* the OK synthesis, the OK removal, the ignore gate and the rendering in this
\* order; the gate never runs before the conflict resolution and only the
\* rendering follows it.
C24_StepsInOrder == [][StepsInOrder]_vars

\* a finished call in which the order of conflict resolution and gate shows:
\* KEY.007 displaced KEY.002 and was then ignored itself
C24_Witness ==
    /\ pc = "done"
    /\ {"KEY.002", "KEY.007"} \subseteq DOMAIN Merge(suggests)
    /\ IsIgnoreRule("KEY.007")
    /\ DOMAIN normalized = DOMAIN Merge(suggests) \ {"KEY.002", "KEY.007"}

\* the set before the OK removal of a finished call
BeforeRemoval == EnsureNotEmpty(MergeConflictHeuristicRules(Merge(suggests)))

\* C25: OK is removed from a result, the synthesized one included, exactly
\* when "OK" is an entry of the ignore list; with "OK" configured a single
\* verdict other than OK is not touched by the removal.
C25_OKRemovedIffConfigured ==
    (pc = "done" /\ Cardinality(DOMAIN BeforeRemoval) = 1) =>
        /\ "OK" \in DOMAIN BeforeRemoval =>
               ("OK" \notin DOMAIN normalized <=> IgnoreOK)
        /\ (IgnoreOK /\ "OK" \notin DOMAIN BeforeRemoval) =>
               RemoveOK(BeforeRemoval) = BeforeRemoval

\* the same under the ignore lists with no entry that is a proper prefix of OK
OKRemovedIffConfiguredWithoutPrefix ==
    (\A i \in DOMAIN IgnoreRules : Trim(IgnoreRules[i], "*") # "O") =>
        C25_OKRemovedIffConfigured

\* the last input map that holds the key k
LastHolder(k) ==
    CHOOSE i \in DOMAIN suggests :
        /\ k \in DOMAIN suggests[i]
        /\ \A j \in DOMAIN suggests : k \in DOMAIN suggests[j] => j <= i

\* C26: the maps of one call are merged into one set whose keys are the union
\* of their keys; for a key several maps hold, the last map in argument order
\* gives the verdict.
C26_LastMapWins ==
    pc = "conflict" =>
        /\ DOMAIN suggest = UNION {DOMAIN suggests[i] : i \in DOMAIN suggests}
        /\ \A k \in DOMAIN suggest : suggest[k] = suggests[LastHolder(k)][k]

\* two maps hold COL.001 with different verdicts and were merged
C26_Witness ==
    /\ pc = "conflict"
    /\ Len(suggests) = 2
    /\ "COL.001" \in DOMAIN suggests[1] \cap DOMAIN suggests[2]
    /\ suggests[1]["COL.001"] # suggests[2]["COL.001"]
    /\ suggest["COL.001"] = suggests[2]["COL.001"]

\* C27: no statement of FormatSuggest changes an input map, whatever the format.
C27_InputsUnchanged == [][pc # "idle" => suggests' = suggests]_vars

\* a finished call that wrote to its local map from the union of two maps to
\* the structured rendering, which deletes from the map it returns
C27_Witness ==
    /\ pc = "done"
    /\ Len(suggests) = 2
    /\ Merge(suggests) # suggests[1]
    /\ format = "markdown"
    /\ suggest # normalized


\* the set FormatSuggest returns for an empty verdict set: OK as the catalog
\* literal defines it
OKOnly ==
    /\ DOMAIN suggest = {"OK"}
    /\ suggest["OK"].Item = "OK"
    /\ suggest["OK"].Severity = "L0"
    /\ suggest["OK"].Summary = "OK"

\* C28: after any sequence of InitHeuristicRules, ListHeuristicRules and
\* FormatSuggest calls, FormatSuggest on an empty verdict set, with the display
\* of OK not disabled, returns the set holding OK with Item "OK", Severity "L0"
\* and Summary "OK", never a zero-valued Rule.
C28_EmptySetGivesOK ==
    (Done /\ format # "" /\ DOMAIN Merge(suggests) = {} /\ ~IgnoreOK) => OKOnly

\* the same for the calls made while the catalog holds OK, under the ignore
\* lists that do not match the item OK
EmptySetGivesOKFromIntactCatalog ==
    ("OK" \in DOMAIN HeuristicRules /\ ~IsIgnoreRule("OK")) => C28_EmptySetGivesOK


\* the returned document opens with the query header and the score line
ScoreAfterQueryHeader ==
    /\ Len(buf) >= 1
    /\ HasPrefix(buf[1], "# Query: ")
    /\ HasPrefix(str, buf[1] \o "\n" \o Score(score) \o "\n")

\* C29: under the report type markdown or html, a structured format returns a
\* non-empty document whenever the normalized set holds a verdict that is
\* rendered, the empty query with OK alone included, and the score line comes
\* directly after the query header.
C29_StructuredDocument ==
    (Done /\ IsStructured /\ ReportType \in {"markdown", "html"}
          /\ Shown(normalized) # {}) =>
        (str # "" /\ ScoreAfterQueryHeader)

\* what holds: with a query text the document is not empty and opens with the
\* query header and the score line; without one it is empty when the rendering
\* made a single piece (line 1488)
StructuredDocumentReturned ==
    (Done /\ IsStructured /\ ReportType \in {"markdown", "html"}
          /\ Shown(normalized) # {}) =>
        IF sql # ""
        THEN str # "" /\ ScoreAfterQueryHeader
        ELSE str = "" <=> Len(buf) <= 1


\* C30: with format json, feeding the set FormatSuggest returned back into
\* FormatSuggest under the same configuration returns the same set, also when
\* the ignore gate removed every verdict of a non-empty input.
C30_NormalizationIdempotent ==
    (Done /\ format = "json") => Normalize(<<suggest>>) = suggest

\* the same for the calls that return at least one verdict
IdempotentOnNonEmptyResult ==
    (Done /\ format = "json" /\ DOMAIN suggest # {}) => Normalize(<<suggest>>) = suggest

====
